---- MODULE Spec2Model ----
(***************************************************************************)
(* 3D LUT tile pattern tool (davidpet/live-tools): tile addressing, the    *)
(* pattern generator, the geometry detector and the .cube sampler.         *)
(*                                                                         *)
(* Three specifications share the variables below:                         *)
(*   SpecDetect  computeDims / detectGeometry on image dimensions          *)
(*   SpecTile    tileIndexToRGB / v / tileCoords, driven by the tile loop  *)
(*               of renderStep1Preview                                     *)
(*   SpecLut     generateStep1Pattern -> external transform ->             *)
(*               detectGeometry -> generateCubeLut                         *)
(***************************************************************************)
EXTENDS Integers, Sequences, FiniteSets, TLC

\* ------------------------------------------------------------------ bounds
\* Largest lattice size N and tile size M offered to computeDims in SpecDetect.
MaxN == 6
MaxM == 5
\* Largest width/height of an arbitrary (resized, cropped, padded) image.
MaxDim == 40
\* Largest lattice size whose N^3 tiles the preview loop walks in SpecTile.
MaxTileN == 6
\* Largest lattice size whose N indices are quantized in SpecTile.
MaxQuantN == 260
\* SpecLut draws (N, M) with N <= LutMaxN, M <= LutMaxM and N^3 * M^2 pixels
\* at most MaxPixels.
LutMaxN == 4
LutMaxM == 14
MaxPixels == 1600
\* The small canvas limit tried beside CANVAS_DIM_PROBE_MAX.
SmallCanvasDim == 16
\* Width and height of the small image of Step 2.
SmallW == 3
SmallH == 2
\* Rows of the Step 2 image that is larger than one chunk of applyStep2Filter.
LargeRows == 3
\* Runs of the Step 2 Run handler the state has room for.
RunSlots == 2
\* Step 2 file loads pending at the same time.
MaxPending == 1
\* Runs of the Step 3 Generate handler the state has room for.
GenSlots == 2

\* ------------------------------------------------------- program constants
\* detectGeometry accepts 2 <= N <= 256.
DetectMaxN == 256
\* generateStep1Pattern / generateCubeLut yield every 5000 tiles / cells.
yieldEvery == 5000
\* The largest canvas dimension the probe tries.
CANVAS_DIM_PROBE_MAX == 65536

Layouts == {"tall", "wide"}

Min(a, b) == IF a < b THEN a ELSE b
Max(a, b) == IF a > b THEN a ELSE b

\* ------------------------------------------------------------ TileGeometry
\* Faulty variant: the layout test never matches, so both layouts give the tall grid.
computeDims_layoutIgnored(N, M, layout) ==
  LET tilesW == N
      tilesH == N * N
  IN  [tilesW |-> tilesW, tilesH |-> tilesH,
       width |-> tilesW * M, height |-> tilesH * M]

\* computeDims(N, M, layout)
computeDims(N, M, layout) ==
  LET tilesW == IF layout = "wide" THEN N * N ELSE N
      tilesH == IF layout = "wide" THEN N ELSE N * N
  IN  [tilesW |-> tilesW, tilesH |-> tilesH,
       width |-> tilesW * M, height |-> tilesH * M]

\* Math.round(a / b) for integers a >= 0, b > 0 (halves round up).  The
\* quotients rounded here are never within 1/(2b) of a half without being
\* one, far more than a double's rounding error.
RoundDiv(a, b) == (2 * a + b) \div (2 * b)

\* Faulty variant: the index scaled by 255 / N in place of 255 / (N - 1).
v_divByN(i, N) == IF N <= 1 THEN 0 ELSE RoundDiv(i * 255, N)

\* v(i, N): map index 0..N-1 to 0..255 inclusive.
v(i, N) == IF N <= 1 THEN 0 ELSE RoundDiv(i * 255, N - 1)

\* Faulty variant: g without the "% N".
tileIndexToRGB_gNoMod(t, N) ==
  [r |-> t % N, g |-> t \div N, b |-> t \div (N * N)]

\* tileIndexToRGB(t, N), for t >= 0 and N >= 1.
tileIndexToRGB(t, N) ==
  [r |-> t % N, g |-> (t \div N) % N, b |-> t \div (N * N)]

\* Faulty variant: the wide column computed as r + g in place of r + g * N.
tileCoords_wideNoStride(t, N, layout) ==
  LET c == tileIndexToRGB(t, N) IN
  IF layout = "wide"
  THEN [xTile |-> c.r + c.g, yTile |-> c.b]
  ELSE [xTile |-> c.r, yTile |-> c.g + c.b * N]

\* tileCoords(t, N, layout)
tileCoords(t, N, layout) ==
  LET c == tileIndexToRGB(t, N) IN
  IF layout = "wide"
  THEN [xTile |-> c.r + c.g * N, yTile |-> c.b]
  ELSE [xTile |-> c.r, yTile |-> c.g + c.b * N]

\* ------------------------------------------------------------ pixel buffers
\* A pixel is <<R, G, B, A>>; a buffer of width w holds pixel (x, y) at index
\* y * w + x (the order of ImageData.data, four bytes per pixel).
Transparent == <<0, 0, 0, 0>>
NoImage == [width |-> 0, height |-> 0, data |-> <<>>]
BlankImage(w, h) ==
  [width |-> w, height |-> h, data |-> [p \in 0 .. (w * h - 1) |-> Transparent]]

\* The pixel indices of the rectangle (x, y, w, h), clipped to the buffer.
RectIndices(img, x, y, w, h) ==
  {yy * img.width + xx :
     xx \in Max(0, x) .. Min(img.width - 1, x + w - 1),
     yy \in Max(0, y) .. Min(img.height - 1, y + h - 1)}

\* The buffer with the pixels at idxs set to colour (a single pixel is
\* written in place).
setPixels(data, idxs, colour) ==
  IF Cardinality(idxs) = 1
  THEN [data EXCEPT ![CHOOSE p \in idxs : TRUE] = colour]
  ELSE [p \in DOMAIN data |-> IF p \in idxs THEN colour ELSE data[p]]

\* The paint counts with the pixels at idxs counted once more.
countPixels(counts, idxs) ==
  IF Cardinality(idxs) = 1
  THEN [counts EXCEPT ![CHOOSE p \in idxs : TRUE] = @ + 1]
  ELSE [p \in DOMAIN counts |-> IF p \in idxs THEN counts[p] + 1 ELSE counts[p]]

\* ctx.fillStyle = rgb(rr,gg,bb); ctx.fillRect(x, y, w, h) on an opaque
\* style: the rectangle, clipped to the canvas, takes the colour.
fillRect(img, x, y, w, h, rr, gg, bb) ==
  [img EXCEPT !.data = setPixels(@, RectIndices(img, x, y, w, h), <<rr, gg, bb, 255>>)]

\* The paint counts after fillRect(img, x, y, w, h, ...).
countRect(counts, img, x, y, w, h) ==
  countPixels(counts, RectIndices(img, x, y, w, h))

\* Faulty variant: the tile drawn at (xTile, yTile) in place of (xTile * M, yTile * M).
paintTile_noScale(img, t, N, M, layout) ==
  LET c == tileIndexToRGB(t, N)
      xy == tileCoords(t, N, layout)
  IN  fillRect(img, xy.xTile, xy.yTile, M, M, v(c.r, N), v(c.g, N), v(c.b, N))

\* The drawing of tile t in generateStep1Pattern.
paintTile(img, t, N, M, layout) ==
  LET c == tileIndexToRGB(t, N)
      xy == tileCoords(t, N, layout)
  IN  fillRect(img, xy.xTile * M, xy.yTile * M, M, M, v(c.r, N), v(c.g, N), v(c.b, N))

\* The paint counts after paintTile(img, t, N, M, layout).
countTile(counts, img, t, N, M, layout) ==
  LET xy == tileCoords(t, N, layout)
  IN  countRect(counts, img, xy.xTile * M, xy.yTile * M, M, M)

\* ---------------------------------------------------------------- LutSampler
\* clampByte(n, fallback) for a finite n = num / den with num >= 0, den > 0.
clampByte(num, den) ==
  LET r == RoundDiv(num, den) IN
  IF r < 0 THEN 0 ELSE IF r > 255 THEN 255 ELSE r

\* (byte / 255).toFixed(6), in millionths.
toFixed6(byte) == RoundDiv(byte * 1000000, 255)

\* Faulty variant: the margin is not reduced when it consumes the whole tile.
sampleMargin_noFallback(M) == Max(1, M \div 5)

\* The inset margin of sampleTileColor; Math.floor(M * 0.2) = M \div 5.
sampleMargin(M) ==
  LET margin == Max(1, M \div 5) IN
  IF margin * 2 >= M THEN Max(0, M \div 4) ELSE margin

\* The sample points per axis of sampleTileColor.
sampleCount(M) == Max(1, Min(8, M - sampleMargin(M) * 2))

\* Math.min(lim - 1, Math.max(0, Math.floor(o + (k + 0.5) * step))) with
\* step = region / s: the coordinate of sample k on an axis starting at o.
samplePos(o, k, M, lim) ==
  LET region == M - sampleMargin(M) * 2
      s == sampleCount(M)
  IN  Min(lim - 1, Max(0, o + ((2 * k + 1) * region) \div (2 * s)))

\* Faulty variant: the inset origin taken as tile + margin in place of tile * M + margin.
samplePoints_noScale(imgW, imgH, tileX, tileY, M) ==
  LET margin == sampleMargin(M)
      x0 == tileX + margin
      y0 == tileY + margin
      s == sampleCount(M)
  IN  [k \in 1 .. s * s |->
         samplePos(y0, (k - 1) \div s, M, imgH) * imgW + samplePos(x0, (k - 1) % s, M, imgW)]

\* The buffer indices (py * imgW + px) sampleTileColor reads, in the order of
\* its loops: yy outer, xx inner.
samplePoints(imgW, imgH, tileX, tileY, M) ==
  LET margin == sampleMargin(M)
      x0 == tileX * M + margin
      y0 == tileY * M + margin
      s == sampleCount(M)
  IN  [k \in 1 .. s * s |->
         samplePos(y0, (k - 1) \div s, M, imgH) * imgW + samplePos(x0, (k - 1) % s, M, imgW)]

\* sumR / sumG / sumB of sampleTileColor: channel ch summed over the first k points.
RECURSIVE channelSum(_, _, _, _)
channelSum(data, pts, ch, k) ==
  IF k = 0 THEN 0 ELSE data[pts[k]][ch] + channelSum(data, pts, ch, k - 1)

\* sampleTileColor(data, imgW, imgH, tileX, tileY, M): the channel means are
\* returned as the sums and the count (r = sumR / count, ...).
sampleTileColor(data, imgW, imgH, tileX, tileY, M) ==
  LET pts == samplePoints(imgW, imgH, tileX, tileY, M)
      count == Len(pts)
  IN  [sumR |-> channelSum(data, pts, 1, count),
       sumG |-> channelSum(data, pts, 2, count),
       sumB |-> channelSum(data, pts, 3, count),
       count |-> count]

\* Faulty variant: the tall branch of the cell -> tile conversion with r and g swapped.
cubeTileCoords_tallSwapped(r, g, b, N, layout) ==
  IF layout = "wide"
  THEN [xTile |-> r + g * N, yTile |-> b]
  ELSE [xTile |-> g, yTile |-> r + b * N]

\* The (r,g,b) -> tile coords conversion inside generateCubeLut.
cubeTileCoords(r, g, b, N, layout) ==
  IF layout = "wide"
  THEN [xTile |-> r + g * N, yTile |-> b]
  ELSE [xTile |-> r, yTile |-> g + b * N]

\* The data line generateCubeLut pushes for the cell (r, g, b): the three
\* printed values <<R, G, B>>, in millionths.
cubeLine(img, geom, r, g, b) ==
  LET xy == cubeTileCoords(r, g, b, geom.N, geom.layout)
      c == sampleTileColor(img.data, img.width, img.height, xy.xTile, xy.yTile, geom.M)
  IN  << toFixed6(clampByte(c.sumR, c.count)),
         toFixed6(clampByte(c.sumG, c.count)),
         toFixed6(clampByte(c.sumB, c.count)) >>

\* The five header lines of the .cube file.
cubeHeader(geom) ==
  << [kind |-> "comment", text |-> "# Generated by 3D LUT Tile Pattern Tool"],
     [kind |-> "TITLE", N |-> geom.N, M |-> geom.M, layout |-> geom.layout],
     [kind |-> "LUT_3D_SIZE", N |-> geom.N],
     [kind |-> "DOMAIN_MIN", r |-> 0, g |-> 0, b |-> 0],
     [kind |-> "DOMAIN_MAX", r |-> 1000000, g |-> 1000000, b |-> 1000000] >>

\* ------------------------------------------------------ external transform
\* What happens to the pattern between Step 1 and Step 3 is outside the
\* program; three dimension-preserving per-pixel transforms stand for it.
Transforms == {"identity", "invert", "shade"}

transformPixel(xf, c, x, y) ==
  IF xf = "identity" THEN c
  ELSE IF xf = "invert" THEN <<255 - c[1], 255 - c[2], 255 - c[3], c[4]>>
  ELSE <<(c[1] + 37 * x + 11 * y) % 256, (c[2] + 5 * x + 91 * y) % 256,
         (c[3] + 7 * x + 53 * y) % 256, c[4]>>

transformImage(xf, img) ==
  [img EXCEPT !.data =
     [p \in DOMAIN img.data |->
        transformPixel(xf, img.data[p], p % img.width, p \div img.width)]]

\* ---------------------------------------------------------- GeometryDetector
\* Results of detectGeometry: a geometry, or the error object.
Geom(N, M, layout) == [kind |-> "geom", N |-> N, M |-> M, layout |-> layout]
GeomError == [kind |-> "error", N |-> 0, M |-> 0, layout |-> "none"]
NoGeom == [kind |-> "none", N |-> 0, M |-> 0, layout |-> "none"]

\* Faulty variant: the wide block with N < 256 in place of N <= 256.
wideHypothesis_strictMaxN(width, height) ==
  IF height > 0 /\ width % height = 0
  THEN LET N == width \div height IN
       IF N * height = width /\ N >= 2 /\ N < DetectMaxN
       THEN IF height % N = 0
            THEN LET M == height \div N IN
                 IF M >= 1 /\ M * N = height
                 THEN IF N * N * M = width /\ N * M = height
                      THEN Geom(N, M, "wide")
                      ELSE GeomError
                 ELSE GeomError
            ELSE GeomError
       ELSE GeomError
  ELSE GeomError

\* Faulty variant: the wide block without the divisibility and exact-reconstruction
\* tests (M taken as the truncated quotient).
wideHypothesis_noVerify(width, height) ==
  IF height > 0 /\ width % height = 0
  THEN LET N == width \div height IN
       IF N * height = width /\ N >= 2 /\ N <= DetectMaxN
       THEN LET M == height \div N IN
            IF M >= 1 THEN Geom(N, M, "wide") ELSE GeomError
       ELSE GeomError
  ELSE GeomError

\* Faulty variant: the wide block taking M = height (the division by N forgotten).
wideHypothesis_wrongM(width, height) ==
  IF height > 0 /\ width % height = 0
  THEN LET N == width \div height IN
       IF N * height = width /\ N >= 2 /\ N <= DetectMaxN
       THEN IF height % N = 0
            THEN LET M == height IN
                 IF M >= 1
                 THEN IF N * N * M = width /\ N * M = height
                      THEN Geom(N, M, "wide")
                      ELSE GeomError
                 ELSE GeomError
            ELSE GeomError
       ELSE GeomError
  ELSE GeomError

\* The "Try wide" block of detectGeometry: W = N^2 * M, H = N * M.
\* Number.isInteger(q) of a quotient q = a / b is modelled as (a \div b) * b = a.
wideHypothesis(width, height) ==
  IF height > 0 /\ width % height = 0
  THEN LET N == width \div height IN
       IF N * height = width /\ N >= 2 /\ N <= DetectMaxN
       THEN IF height % N = 0
            THEN LET M == height \div N IN
                 IF M >= 1 /\ M * N = height
                 THEN IF N * N * M = width /\ N * M = height
                      THEN Geom(N, M, "wide")
                      ELSE GeomError
                 ELSE GeomError
            ELSE GeomError
       ELSE GeomError
  ELSE GeomError

\* The "Try tall" block of detectGeometry: H = N^2 * M, W = N * M.
tallHypothesis(width, height) ==
  IF width > 0 /\ height % width = 0
  THEN LET N == height \div width IN
       IF N * width = height /\ N >= 2 /\ N <= DetectMaxN
       THEN IF width % N = 0
            THEN LET M == width \div N IN
                 IF M >= 1 /\ M * N = width
                 THEN IF N * M = width /\ N * N * M = height
                      THEN Geom(N, M, "tall")
                      ELSE GeomError
                 ELSE GeomError
            ELSE GeomError
       ELSE GeomError
  ELSE GeomError

\* detectGeometry(width, height): wide first, then tall, else the error.
detectGeometry(width, height) ==
  IF wideHypothesis(width, height).kind = "geom"
  THEN wideHypothesis(width, height)
  ELSE IF tallHypothesis(width, height).kind = "geom"
       THEN tallHypothesis(width, height)
       ELSE GeomError

\* ---------------------------------------------------------- PixelFilterEngine
\* applyStep2Filter suspends after every chunkPixels pixels.
chunkPixels == 150000

\* A number a filter script can leave in R, G or B: the finite number
\* num / den (den > 0), NaN, +Infinity or -Infinity.
Num(n, d) == [kind |-> "num", num |-> n, den |-> d]
NaN == [kind |-> "NaN", num |-> 0, den |-> 1]
PosInfinity == [kind |-> "+Infinity", num |-> 0, den |-> 1]
NegInfinity == [kind |-> "-Infinity", num |-> 0, den |-> 1]

\* Number.isFinite(x)
isFinite(x) == x.kind = "num"

\* Math.round(x) of a finite x: the nearest integer, halves towards +Infinity
\* (\div rounds towards -Infinity).
mathRound(x) == (2 * x.num + x.den) \div (2 * x.den)

\* The filter scripts tried (the text typed into step2Script).
Script_empty == ""
Script_return == "return;"
Script_clamp == "R = 999; G = -50; B = 127.5;"
Script_invert == "R = 255 - R; G = 255 - G; B = 255 - B;"
Script_early == "R = G; return; B = 0;"
Script_nan == "R = 0 / 0; G = 255 - G; B = B / 2;"
Script_inf == "R = R + 0.4; G = 1 / 0; B = -1 / 0;"
Script_throwAt == "if (X === 1 && Y === 1) throw new Error('bad pixel'); R = X; G = Y * 100; B = W + H;"
Script_throwBright == "if (R > 100 && G < 150) throw new Error('too bright'); G = R - 0.5;"
Script_syntax == "R = ;"

Scripts ==
  {Script_empty, Script_return, Script_clamp, Script_invert, Script_early, Script_nan,
   Script_inf, Script_throwAt, Script_throwBright, Script_syntax}

\* Faulty variant: a syntax error is not found when the filter is compiled.
compiles_lazily(script) == TRUE

\* new Function(..., wrapped) throws a SyntaxError for a script that does not parse.
compiles(script) == script # Script_syntax

\* The script reads neither X nor Y: equal pixels give equal results.
positionFree(script) == script # Script_throwAt

\* The outcome of "(function(){ userCode })()" for the arguments R .. H: the
\* exception thrown, or the values left in R, G, B (a channel the script does
\* not assign keeps its argument).
runScript(script, R, G, B, X, Y, W, H) ==
  LET kept == [thrown |-> FALSE, msg |-> "", R |-> Num(R, 1), G |-> Num(G, 1), B |-> Num(B, 1)]
      throw(msg) == [kept EXCEPT !.thrown = TRUE, !.msg = msg]
  IN  CASE script = Script_empty -> kept
        [] script = Script_return -> kept
        [] script = Script_clamp ->
             [kept EXCEPT !.R = Num(999, 1), !.G = Num(-50, 1), !.B = Num(255, 2)]
        [] script = Script_invert ->
             [kept EXCEPT !.R = Num(255 - R, 1), !.G = Num(255 - G, 1), !.B = Num(255 - B, 1)]
        [] script = Script_early -> [kept EXCEPT !.R = Num(G, 1)]
        [] script = Script_nan ->
             [kept EXCEPT !.R = NaN, !.G = Num(255 - G, 1), !.B = Num(B, 2)]
        [] script = Script_inf ->
             [kept EXCEPT !.R = Num(10 * R + 4, 10), !.G = PosInfinity, !.B = NegInfinity]
        [] script = Script_throwAt ->
             IF X = 1 /\ Y = 1 THEN throw("bad pixel")
             ELSE [kept EXCEPT !.R = Num(X, 1), !.G = Num(Y * 100, 1), !.B = Num(W + H, 1)]
        [] script = Script_throwBright ->
             IF R > 100 /\ G < 150 THEN throw("too bright")
             ELSE [kept EXCEPT !.G = Num(2 * R - 1, 2)]
        [] OTHER -> kept

\* Faulty variant: the result packed as (B << 16) | (G << 8) | R.
packChannels_BGR(res, R, G, B) ==
  LET byte(x, fallback) ==
        Max(0, Min(255, mathRound(IF isFinite(x) THEN x ELSE Num(fallback, 1))))
  IN  [thrown |-> res.thrown, msg |-> res.msg,
       packed |-> byte(res.B, B) * 65536 + byte(res.G, G) * 256 + byte(res.R, R)]

\* Faulty variant: the rounded values packed without the clamp to 0 .. 255.
packChannels_noClamp(res, R, G, B) ==
  LET byte(x, fallback) == mathRound(IF isFinite(x) THEN x ELSE Num(fallback, 1))
  IN  [thrown |-> res.thrown, msg |-> res.msg,
       packed |-> byte(res.R, R) * 65536 + byte(res.G, G) * 256 + byte(res.B, B)]

\* Faulty variant: a non-finite channel replaced by 0 in place of its argument.
packChannels_nonFiniteZero(res, R, G, B) ==
  LET byte(x, fallback) == Max(0, Min(255, mathRound(IF isFinite(x) THEN x ELSE Num(0, 1))))
  IN  [thrown |-> res.thrown, msg |-> res.msg,
       packed |-> byte(res.R, R) * 65536 + byte(res.G, G) * 256 + byte(res.B, B)]

\* The statements of the compiled function after the script (res: what the
\* script threw or left in R, G, B; the arguments R, G, B are _R, _G, _B):
\* the non-finite fallback, Math.round, the clamp and
\* (R << 16) | (G << 8) | B (three bytes, so the "|" is their sum).
packChannels(res, R, G, B) ==
  LET byte(x, fallback) ==
        Max(0, Min(255, mathRound(IF isFinite(x) THEN x ELSE Num(fallback, 1))))
  IN  [thrown |-> res.thrown, msg |-> res.msg,
       packed |-> byte(res.R, R) * 65536 + byte(res.G, G) * 256 + byte(res.B, B)]

\* The function compilePixelFilter(script) returns, applied to R .. H: it
\* throws what the script throws, or returns the packed channels.
filterFn(script, R, G, B, X, Y, W, H) ==
  packChannels(runScript(script, R, G, B, X, Y, W, H), R, G, B)

\* Faulty variant: the alpha byte written as 255.
writePixel_alphaOpaque(px, packed) ==
  <<(packed \div 65536) % 256, (packed \div 256) % 256, packed % 256, 255>>

\* data[i] = (packed >> 16) & 255; data[i + 1] = (packed >> 8) & 255;
\* data[i + 2] = packed & 255; data[i + 3] is not written.
writePixel(px, packed) ==
  <<(packed \div 65536) % 256, (packed \div 256) % 256, packed % 256, px[4]>>

\* The pixels of a Step 2 buffer are held in row-major order as runs of equal
\* pixels, <<[len |-> n, px |-> <<R, G, B, A>>], ...>>, no two neighbouring
\* runs holding the same pixel.
RECURSIVE runsLength(_)
runsLength(runs) ==
  IF runs = <<>> THEN 0 ELSE Head(runs).len + runsLength(Tail(runs))

\* The index of the first pixel of run k.
runStart(runs, k) == runsLength(SubSeq(runs, 1, k - 1))

\* The pixel at index p (data[4p .. 4p + 3]).
pixelAt(runs, p) ==
  runs[CHOOSE k \in 1 .. Len(runs) :
         runStart(runs, k) <= p /\ p < runStart(runs, k) + runs[k].len].px

\* The pixels a .. b - 1, as runs.
slice(runs, a, b) ==
  LET cut == [k \in 1 .. Len(runs) |->
                [len |-> Max(0, Min(b, runStart(runs, k) + runs[k].len)
                                  - Max(a, runStart(runs, k))),
                 px |-> runs[k].px]]
  IN  SelectSeq(cut, LAMBDA r : r.len > 0)

\* The same pixels, one run per pixel.
units(runs) ==
  [p \in 1 .. runsLength(runs) |-> [len |-> 1, px |-> pixelAt(runs, p - 1)]]

\* The same pixels with neighbouring runs of equal pixels joined.
RECURSIVE compress(_)
compress(runs) ==
  IF Len(runs) <= 1 THEN runs
  ELSE LET rest == compress(Tail(runs)) IN
       IF Head(runs).px = Head(rest).px
       THEN <<[len |-> Head(runs).len + Head(rest).len, px |-> Head(runs).px]>> \o Tail(rest)
       ELSE <<Head(runs)>> \o rest

\* The stretches of equal treatment of the pixels from .. to - 1: the runs
\* of equal pixels for a script that reads neither X nor Y, the single pixels
\* otherwise.
spansOf(runs, script, from, to) ==
  IF positionFree(script) THEN slice(runs, from, to) ELSE units(slice(runs, from, to))

\* For each stretch, the index of its first pixel and the filter call on it
\* (pixel p is x = p % W, y = p \div W).
spanCalls(spans, script, from, W, H) ==
  [j \in 1 .. Len(spans) |->
     [at |-> from + runStart(spans, j),
      res |-> filterFn(script, spans[j].px[1], spans[j].px[2], spans[j].px[3],
                       (from + runStart(spans, j)) % W, (from + runStart(spans, j)) \div W,
                       W, H)]]

\* Faulty variant: a pixel whose filter call throws is skipped and the loop goes on.
writeSpans_skipBad(runs, spans, calls, from, to) ==
  [data |-> compress(slice(runs, 0, from)
                     \o [j \in 1 .. Len(spans) |->
                           [len |-> spans[j].len,
                            px |-> IF calls[j].res.thrown THEN spans[j].px
                                   ELSE writePixel(spans[j].px, calls[j].res.packed)]]
                     \o slice(runs, to, runsLength(runs))),
   stop |-> to, msg |-> ""]

\* The pixels from .. to - 1 are read, filtered and written in row-major
\* order up to the first pixel whose call throws: stop is that pixel, or to
\* when no call throws.
writeSpans(runs, spans, calls, from, to) ==
  LET bad == {j \in 1 .. Len(spans) : calls[j].res.thrown}
      first == IF bad = {} THEN Len(spans) + 1
               ELSE CHOOSE j \in bad : \A k \in bad : j <= k
  IN  [data |-> compress(slice(runs, 0, from)
                         \o [j \in 1 .. first - 1 |->
                               [len |-> spans[j].len,
                                px |-> writePixel(spans[j].px, calls[j].res.packed)]]
                         \o slice(runs, IF bad = {} THEN to ELSE calls[first].at,
                                  runsLength(runs))),
       stop |-> IF bad = {} THEN to ELSE calls[first].at,
       msg |-> IF bad = {} THEN "" ELSE calls[first].res.msg]

\* writeSpans on the stretches spans.
filterSpans(runs, spans, script, from, to, W, H) ==
  writeSpans(runs, spans, spanCalls(spans, script, from, W, H), from, to)

\* The pixel loop of applyStep2Filter over the pixels from .. to - 1.
filterSpan(runs, script, from, to, W, H) ==
  filterSpans(runs, spansOf(runs, script, from, to), script, from, to, W, H)

\* Errors of Step 2: new Error(message); a filter error carries the pixel.
NoError2 == [kind |-> "none", x |-> 0, y |-> 0, msg |-> ""]
Error2(message) == [kind |-> message, x |-> 0, y |-> 0, msg |-> ""]
FilterError(x, y, msg) == [kind |-> "Filter error at", x |-> x, y |-> y, msg |-> msg]

\* The pixel after the last one applyStep2Filter handles before it suspends
\* or returns: the loop suspends when processed reaches a multiple of chunkPixels.
chunkEnd(img, from, processed) ==
  Min(img.width * img.height, from + chunkPixels - (processed % chunkPixels))

\* Faulty variant: the flag is not looked at before the first pixel.
filterOutcome_noFirstCheck(img, span, from, to, processed, cancelled, resumed) ==
  IF cancelled /\ resumed
  THEN [kind |-> "throw", err |-> Error2("Cancelled."), data |-> img.data,
        processed |-> processed, reports |-> <<>>]
  ELSE IF span.stop < to
  THEN [kind |-> "throw",
        err |-> FilterError(span.stop % img.width, span.stop \div img.width, span.msg),
        data |-> span.data, processed |-> processed + (span.stop - from), reports |-> <<>>]
  ELSE IF to > from /\ (processed + (to - from)) % chunkPixels = 0
  THEN [kind |-> "await", err |-> NoError2, data |-> span.data,
        processed |-> processed + (to - from),
        reports |-> << <<processed + (to - from), img.width * img.height>> >>]
  ELSE [kind |-> "return", err |-> NoError2, data |-> span.data,
        processed |-> processed + (to - from), reports |-> << <<1, 1>> >>]

\* Faulty variant: the flag is not looked at after "await nextFrame()".
filterOutcome_noRecheck(img, span, from, to, processed, cancelled, resumed) ==
  IF cancelled /\ ~resumed /\ img.height >= 1
  THEN [kind |-> "throw", err |-> Error2("Cancelled."), data |-> img.data,
        processed |-> processed, reports |-> <<>>]
  ELSE IF span.stop < to
  THEN [kind |-> "throw",
        err |-> FilterError(span.stop % img.width, span.stop \div img.width, span.msg),
        data |-> span.data, processed |-> processed + (span.stop - from), reports |-> <<>>]
  ELSE IF to > from /\ (processed + (to - from)) % chunkPixels = 0
  THEN [kind |-> "await", err |-> NoError2, data |-> span.data,
        processed |-> processed + (to - from),
        reports |-> << <<processed + (to - from), img.width * img.height>> >>]
  ELSE [kind |-> "return", err |-> NoError2, data |-> span.data,
        processed |-> processed + (to - from), reports |-> << <<1, 1>> >>]

\* Faulty variant: no report and no suspension after the last pixel.
filterOutcome_noFinalYield(img, span, from, to, processed, cancelled, resumed) ==
  IF cancelled /\ (resumed \/ img.height >= 1)
  THEN [kind |-> "throw", err |-> Error2("Cancelled."), data |-> img.data,
        processed |-> processed, reports |-> <<>>]
  ELSE IF span.stop < to
  THEN [kind |-> "throw",
        err |-> FilterError(span.stop % img.width, span.stop \div img.width, span.msg),
        data |-> span.data, processed |-> processed + (span.stop - from), reports |-> <<>>]
  ELSE IF to > from /\ (processed + (to - from)) % chunkPixels = 0
          /\ to < img.width * img.height
  THEN [kind |-> "await", err |-> NoError2, data |-> span.data,
        processed |-> processed + (to - from),
        reports |-> << <<processed + (to - from), img.width * img.height>> >>]
  ELSE [kind |-> "return", err |-> NoError2, data |-> span.data,
        processed |-> processed + (to - from), reports |-> << <<1, 1>> >>]

\* The way applyStep2Filter leaves the code it runs between two awaits, span
\* being the outcome of its pixel loop on from .. to - 1: Cancelled (the
\* check at the head of the first row, or the check after the await), the
\* filter error, the next await or the return.  reports are the arguments of
\* onProgress, <<num, den>>.
filterOutcome(img, span, from, to, processed, cancelled, resumed) ==
  IF cancelled /\ (resumed \/ img.height >= 1)
  THEN [kind |-> "throw", err |-> Error2("Cancelled."), data |-> img.data,
        processed |-> processed, reports |-> <<>>]
  ELSE IF span.stop < to
  THEN [kind |-> "throw",
        err |-> FilterError(span.stop % img.width, span.stop \div img.width, span.msg),
        data |-> span.data, processed |-> processed + (span.stop - from), reports |-> <<>>]
  ELSE IF to > from /\ (processed + (to - from)) % chunkPixels = 0
  THEN [kind |-> "await", err |-> NoError2, data |-> span.data,
        processed |-> processed + (to - from),
        reports |-> << <<processed + (to - from), img.width * img.height>> >>]
  ELSE [kind |-> "return", err |-> NoError2, data |-> span.data,
        processed |-> processed + (to - from), reports |-> << <<1, 1>> >>]

\* filterOutcome for the pixels from .. to - 1.
filterChunk(img, script, from, to, processed, cancelled, resumed) ==
  filterOutcome(img, filterSpan(img.data, script, from, to, img.width, img.height),
                from, to, processed, cancelled, resumed)

\* applyStep2Filter from one suspension to the next: the code run from the
\* call (resumed = FALSE, from = 0) or from the return of "await nextFrame()"
\* (resumed = TRUE, from = the next pixel) up to the next await, return or throw.
applyStep2Filter(img, script, from, processed, cancelled, resumed) ==
  filterChunk(img, script, from, chunkEnd(img, from, processed), processed, cancelled, resumed)

\* ------------------------------------------------------------ Step 2 images
\* An ImageData object: width, height and the pixel runs of its data array;
\* NoBuffer is a heap cell that holds no object.
ImageData(data, width, height) ==
  [used |-> TRUE, width |-> width, height |-> height, data |-> data]
NoBuffer == [used |-> FALSE, width |-> 0, height |-> 0, data |-> <<>>]

\* The PNG files offered to the Step 2 file input: a small image, an image
\* of LargeRows rows with more than chunkPixels pixels (the suspension falls
\* inside its last row) and an image of exactly chunkPixels pixels.
Files == {"small.png", "large.png", "exact.png"}

\* Pixel p of small.png: pixels 0 and 1 are equal, the alpha bytes vary.
smallPixel(p) ==
  LET q == IF p <= 1 THEN 0 ELSE p - 1 IN
  <<(q * 103) % 256, (200 - q * 61) % 256, (q * q * 31) % 256,
    IF q % 3 = 0 THEN 255 ELSE IF q % 3 = 1 THEN 128 ELSE 0>>

\* loadPngToImageData(f) when the file decodes: its ImageData.
decodePng(f) ==
  CASE f = "small.png" ->
         ImageData(compress([p \in 1 .. SmallW * SmallH |-> [len |-> 1, px |-> smallPixel(p - 1)]]),
                   SmallW, SmallH)
    [] f = "large.png" ->
         LET w == chunkPixels \div LargeRows + 1 IN
         ImageData(<<[len |-> chunkPixels \div 2, px |-> <<10, 200, 30, 255>>],
                     [len |-> w * LargeRows - chunkPixels \div 2, px |-> <<220, 40, 128, 77>>]>>,
                   w, LargeRows)
    [] OTHER ->
         ImageData(<<[len |-> chunkPixels - 1, px |-> <<1, 2, 3, 255>>],
                     [len |-> 1, px |-> <<255, 0, 255, 0>>]>>,
                   chunkPixels \div 4, 4)

\* The scripts run on a loaded file: all of them on the small image, two
\* that read neither X nor Y on the images that reach a suspension.
scriptsFor(f) == IF f = "small.png" THEN Scripts ELSE {Script_empty, Script_invert}

\* The heap cells that hold ImageData objects: the loaded image and one per run.
HeapSlots == RunSlots + 1
HeapIds == 1 .. HeapSlots

\* A free heap cell (the lowest).
newId(heap) ==
  CHOOSE id \in HeapIds : ~heap[id].used /\ \A j \in HeapIds : j < id => heap[j].used

\* step2Loaded: null, or the loaded file and the heap cell of its imageData.
NotLoaded == [file |-> "none", imageData |-> 0]

\* A run of the Step 2 Run handler (or a direct call of applyStep2Filter).
\*   pc         "idle", "yield" (await nextFrame() in applyStep2Filter),
\*              "encode" (await nextFrame() before the PNG), "blob" (await
\*              makePngFromImageData), "done", "returned", "failed"
\*   img        heap cell of the ImageData handed to applyStep2Filter
\*   before     the pixels of img when applyStep2Filter was called
\*   next       index of the next pixel of the row-major loop
\*   processed  applyStep2Filter: processed
\*   cancelled  cancelRef.cancelled of the cancelRef handed to the call
\*   reports    the arguments of onProgress so far, <<num, den>>
\*   returned   applyStep2Filter returned img
IdleRun ==
  [pc |-> "idle", caller |-> "none", script |-> "", img |-> 0, before |-> <<>>,
   next |-> 0, processed |-> 0, cancelled |-> FALSE, reports |-> <<>>,
   err |-> NoError2, returned |-> FALSE]

RunIds == 1 .. RunSlots

\* The handler of the run is suspended at an await.
InFlight(run) == run.pc \in {"yield", "encode", "blob"}

\* Some live reference holds the heap cell id.
referenced(id, loaded, runs) ==
  \/ loaded # NotLoaded /\ loaded.imageData = id
  \/ \E i \in RunIds : runs[i].pc # "idle" /\ runs[i].img = id

\* The heap after the objects nothing refers to are gone.
collect(heap, loaded, runs) ==
  [id \in HeapIds |-> IF referenced(id, loaded, runs) THEN heap[id] ELSE NoBuffer]

\* Faulty variant: the run is handed the loaded ImageData itself.
cloneImage_shared(heap, src) == [id |-> src, heap |-> heap]

\* new ImageData(new Uint8ClampedArray(src.data), width, height): a new
\* object holding a copy of the pixels.
cloneImage(heap, src) ==
  LET id == newId(heap) IN [id |-> id, heap |-> [heap EXCEPT ![id] = heap[src]]]

\* The run after applyStep2Filter went from one suspension to the next.
runAfter(run, res) ==
  [run EXCEPT !.pc = IF res.kind = "await" THEN "yield"
                     ELSE IF res.kind = "throw" THEN "failed"
                     ELSE IF run.caller = "handler" THEN "encode" ELSE "returned",
              !.next = res.processed,
              !.processed = res.processed,
              !.reports = @ \o res.reports,
              !.err = res.err,
              !.returned = (res.kind = "return")]

\* The status line after a step of the Run handler.
statusAfter(run) ==
  IF run.pc = "yield" THEN "Processing..."
  ELSE IF run.pc \in {"encode", "blob"} THEN "Encoding PNG..."
  ELSE IF run.pc = "done" THEN "Done."
  ELSE run.err.kind

\* --------------------------------------------------------- Step 3 objects
\* step3Loaded: null, or the loaded file, its imageData and its geometry.
NotLoaded3 == [file |-> "none", imageData |-> NoBuffer, geom |-> NoGeom]

\* The download link of Step 3: hidden, or the file and N of its name
\* (`${base}_N${N}.cube`).
NoDownload3 == [file |-> "none", N |-> 0]

\* A run of the Step 3 Generate handler.
\*   pc         "idle", "yield" (await nextFrame() in generateCubeLut), "returned"
\*              (generateCubeLut returned to a direct caller), "done", "failed"
\*   img, geom  the arguments of generateCubeLut
\*   done       generateCubeLut: done
\*   cancelled  cancelRef.cancelled of the cancelRef handed to the call
\*   lines      the data lines pushed so far, as runs of equal lines
\*   reports    the arguments of onProgress so far, <<num, den>>
\*   returned   generateCubeLut returned the blob
IdleGen ==
  [pc |-> "idle", img |-> NoBuffer, geom |-> NoGeom, done |-> 0, cancelled |-> FALSE,
   lines |-> <<>>, reports |-> <<>>, err |-> NoError2, returned |-> FALSE]

GenIds == 1 .. GenSlots

\* ------------------------------------------------------------------- state
VARIABLES
  mode,      \* which specification is running: "detect", "tile", "lut", "filter", "step3" or "cube"
  pattern,   \* the (N, M, layout) whose computeDims gave the image, or NoGeom
  imgW,      \* width of the image handed to detectGeometry
  imgH,      \* height of the image handed to detectGeometry
  detected,  \* result of detectGeometry, NoGeom before it ran
  tN,        \* renderStep1Preview: lattice size N
  tLayout,   \* renderStep1Preview: layout
  tIdx,      \* renderStep1Preview: loop variable t
  tile,      \* renderStep1Preview: the tile drawn last
  qN,        \* v: lattice size N of the quantization sweep
  qi,        \* v: next index i of the sweep
  qv,        \* v: the byte returned for index qi - 1
  canvasMaxDim, \* CANVAS_MAX_DIM, the probed canvas limit of the session
  g1pc,      \* generateStep1Pattern: "idle", "loop", "yield", "encode", "done", "failed"
  g1t,       \* generateStep1Pattern: loop variable t
  g1cancel,  \* generateStep1Pattern: cancelRef.cancelled
  g1err,     \* generateStep1Pattern: the error thrown
  g1progress, \* generateStep1Pattern: last onProgress argument, <<num, den>>
  canvas,    \* generateStep1Pattern: the canvas
  paints,    \* per canvas pixel, the number of fillRect calls that covered it
  img3,      \* step3Loaded.imageData
  img3xf,    \* the external transform the loaded image went through
  g3pc,      \* generateCubeLut: "idle", "loop", "yield", "done", "failed"
  g3r,       \* generateCubeLut: loop variable r
  g3g,       \* generateCubeLut: loop variable g
  g3b,       \* generateCubeLut: loop variable b
  g3done,    \* generateCubeLut: done
  g3cancel,  \* generateCubeLut: cancelRef.cancelled
  g3err,     \* generateCubeLut: the error thrown
  g3progress, \* generateCubeLut: last onProgress argument, <<num, den>>
  lines,     \* generateCubeLut: lines
  heap,      \* the ImageData objects of Step 2, by heap cell
  step2Loaded,  \* step2Loaded
  step2Loading, \* the files whose loadPngToImageData is pending
  step2Runs,    \* the runs of the Step 2 Run handler, by slot
  step2CancelRef,  \* step2CancelRef: the run slot whose cancelRef it is, 0 for the first object
  step2Cancelled0, \* cancelled of the cancelRef object Step 2 starts with
  step2RunBtnDisabled,    \* step2RunBtn.disabled
  step2CancelBtnDisabled, \* step2CancelBtn.disabled
  step2ProgressHidden,    \* step2Progress.hidden
  step2Download,  \* the file the download link is named after, "none" when hidden
  step2Status,    \* step2Status.textContent
  step3Loaded,    \* step3Loaded
  step3Loading,   \* the files whose loadPngToImageData is pending in Step 3
  step3Gens,      \* the runs of the Step 3 Generate handler, by slot
  step3CancelRef,  \* step3CancelRef: the slot whose cancelRef it is, 0 for the first object
  step3Cancelled0, \* cancelled of the cancelRef object Step 3 starts with
  step3GenerateBtnDisabled, \* step3GenerateBtn.disabled
  step3CancelBtnDisabled,   \* step3CancelBtn.disabled
  step3ProgressHidden,      \* step3Progress.hidden
  step3Download,  \* the file and N the download link is named after
  step3Status     \* step3Status.textContent

detectVars == <<pattern, imgW, imgH, detected>>
tileVars == <<tN, tLayout, tIdx, tile>>
quantVars == <<qN, qi, qv>>
genVars == <<canvasMaxDim, g1pc, g1t, g1cancel, g1err, g1progress, canvas, paints>>
cubeVars == <<img3, img3xf, g3pc, g3r, g3g, g3b, g3done, g3cancel, g3err, g3progress, lines>>
filterVars == <<heap, step2Loaded, step2Loading, step2Runs, step2CancelRef, step2Cancelled0,
                step2RunBtnDisabled, step2CancelBtnDisabled, step2ProgressHidden,
                step2Download, step2Status>>
step3Vars == <<step3Loaded, step3Loading, step3Gens, step3CancelRef, step3Cancelled0,
               step3GenerateBtnDisabled, step3CancelBtnDisabled, step3ProgressHidden,
               step3Download, step3Status>>
vars == <<mode, detectVars, tileVars, quantVars, genVars, cubeVars, filterVars, step3Vars>>

NoTile == [t |-> -1, r |-> 0, g |-> 0, b |-> 0, rr |-> 0, gg |-> 0, bb |-> 0,
           xTile |-> 0, yTile |-> 0]

DetectIdle == pattern = NoGeom /\ imgW = 0 /\ imgH = 0 /\ detected = NoGeom
TileIdle == tN = 0 /\ tLayout = "tall" /\ tIdx = 0 /\ tile = NoTile
QuantIdle == qN = 0 /\ qi = 0 /\ qv = 0

NoError == [kind |-> "none", width |-> 0, height |-> 0, mMax |-> 0]
Failure(kind) == [kind |-> kind, width |-> 0, height |-> 0, mMax |-> 0]

GenIdle ==
  /\ g1pc = "idle" /\ g1t = 0 /\ g1cancel = FALSE /\ g1err = NoError
  /\ g1progress = <<0, 1>> /\ canvas = NoImage /\ paints = <<>>
CubeIdle ==
  /\ img3 = NoImage /\ img3xf = "none" /\ g3pc = "idle" /\ g3r = 0 /\ g3g = 0 /\ g3b = 0
  /\ g3done = 0 /\ g3cancel = FALSE /\ g3err = NoError
  /\ g3progress = <<0, 1>> /\ lines = <<>>
LutIdle == canvasMaxDim = CANVAS_DIM_PROBE_MAX /\ GenIdle /\ CubeIdle

\* Step 2 before a file is loaded.
FilterIdle ==
  /\ heap = [id \in HeapIds |-> NoBuffer]
  /\ step2Loaded = NotLoaded
  /\ step2Loading = {}
  /\ step2Runs = [i \in RunIds |-> IdleRun]
  /\ step2CancelRef = 0
  /\ step2Cancelled0 = FALSE
  /\ step2RunBtnDisabled = FALSE
  /\ step2CancelBtnDisabled = TRUE
  /\ step2ProgressHidden = TRUE
  /\ step2Download = "none"
  /\ step2Status = ""

\* Step 3 before a file is loaded.
Step3Idle ==
  /\ step3Loaded = NotLoaded3
  /\ step3Loading = {}
  /\ step3Gens = [i \in GenIds |-> IdleGen]
  /\ step3CancelRef = 0
  /\ step3Cancelled0 = FALSE
  /\ step3GenerateBtnDisabled = FALSE
  /\ step3CancelBtnDisabled = TRUE
  /\ step3ProgressHidden = TRUE
  /\ step3Download = NoDownload3
  /\ step3Status = ""


\* ------------------------------------------------------------- SpecDetect
\* Lattice sizes offered to computeDims: the small ones and the two around
\* the detector's upper limit.
DetectNs == (2 .. MaxN) \cup {DetectMaxN, DetectMaxN + 1}

InitDetect ==
  /\ mode = "detect"
  /\ DetectIdle
  /\ TileIdle
  /\ QuantIdle
  /\ LutIdle
  /\ FilterIdle
  /\ Step3Idle

\* No image has been examined yet (each run examines one image).
NoImageYet == pattern = NoGeom /\ imgW = 0 /\ imgH = 0 /\ detected = NoGeom

\* An image whose dimensions come from computeDims(N, M, layout).
PatternImage(N, M, layout) ==
  /\ mode = "detect"
  /\ NoImageYet
  /\ pattern' = Geom(N, M, layout)
  /\ imgW' = computeDims(N, M, layout).width
  /\ imgH' = computeDims(N, M, layout).height
  /\ detected' = NoGeom
  /\ UNCHANGED <<mode, step3Vars, filterVars, tileVars, quantVars, genVars, cubeVars>>

\* An image of arbitrary dimensions (resized, cropped or padded elsewhere).
ArbitraryImage(w, h) ==
  /\ mode = "detect"
  /\ NoImageYet
  /\ pattern' = NoGeom
  /\ imgW' = w
  /\ imgH' = h
  /\ detected' = NoGeom
  /\ UNCHANGED <<mode, step3Vars, filterVars, tileVars, quantVars, genVars, cubeVars>>

\* detectGeometry(imgW, imgH)
Detect ==
  /\ mode = "detect"
  /\ detected = NoGeom
  /\ detected' = detectGeometry(imgW, imgH)
  /\ UNCHANGED <<mode, step3Vars, filterVars, pattern, imgW, imgH, tileVars, quantVars, genVars, cubeVars>>

\* The large lattice sizes are offered with M = 1 only.
DetectInputs == {nm \in DetectNs \X (1 .. MaxM) : nm[1] <= MaxN \/ nm[2] = 1}

NextDetect ==
  \/ \E nm \in DetectInputs, layout \in Layouts : PatternImage(nm[1], nm[2], layout)
  \/ \E w \in 0 .. MaxDim, h \in 0 .. MaxDim : ArbitraryImage(w, h)
  \/ Detect

SpecDetect == InitDetect /\ [][NextDetect]_vars

\* --------------------------------------------------------------- SpecTile
\* The tile loop of renderStep1Preview for a typed N and the chosen layout
\* (the preview is drawn for any N the form holds, valid or not).
InitTile ==
  /\ mode = "tile"
  /\ tN \in 0 .. MaxTileN
  /\ tLayout \in Layouts
  /\ tIdx = 0
  /\ tile = NoTile
  /\ DetectIdle
  /\ QuantIdle
  /\ LutIdle
  /\ FilterIdle
  /\ Step3Idle

\* One iteration of "for (let t = 0; t < totalTiles; t++)".
PreviewTile ==
  /\ mode = "tile"
  /\ tIdx < tN * tN * tN
  /\ LET c == tileIndexToRGB(tIdx, tN)
         xy == tileCoords(tIdx, tN, tLayout)
     IN  tile' = [t |-> tIdx, r |-> c.r, g |-> c.g, b |-> c.b,
                  rr |-> v(c.r, tN), gg |-> v(c.g, tN), bb |-> v(c.b, tN),
                  xTile |-> xy.xTile, yTile |-> xy.yTile]
  /\ tIdx' = tIdx + 1
  /\ UNCHANGED <<mode, step3Vars, filterVars, tN, tLayout, detectVars, quantVars, genVars, cubeVars>>

\* A sweep of v(i, N) over the indices of a lattice of size N; for N <= 1
\* the indices 0 and 1 are tried.
InitQuant ==
  /\ mode = "quant"
  /\ qN \in (-1) .. MaxQuantN
  /\ qi = 0
  /\ qv = 0
  /\ DetectIdle
  /\ TileIdle
  /\ LutIdle
  /\ FilterIdle
  /\ Step3Idle

Quantize ==
  /\ mode = "quant"
  /\ qi < Max(qN, 2)
  /\ qv' = v(qi, qN)
  /\ qi' = qi + 1
  /\ UNCHANGED <<mode, step3Vars, filterVars, qN, detectVars, tileVars, genVars, cubeVars>>

NextTile == PreviewTile \/ Quantize

SpecTile == (InitTile \/ InitQuant) /\ [][NextTile]_vars

\* ---------------------------------------------------------------- SpecLut
\* The smallest lattice whose N^3 cells reach yieldEvery, so that the loop of
\* generateCubeLut suspends; it is offered with M = 1.
LargeN ==
  CHOOSE n \in 1 .. yieldEvery :
    n * n * n >= yieldEvery /\ (n - 1) * (n - 1) * (n - 1) < yieldEvery

LutInputs ==
  {in \in (2 .. LutMaxN) \X (1 .. LutMaxM) \X Layouts :
     in[1] * in[1] * in[1] * in[2] * in[2] <= MaxPixels}
  \cup {<<LargeN, 1, "wide">>}

\* The external transforms tried on the pattern image of a lattice.
transformsFor(geom) == IF geom.N <= LutMaxN THEN Transforms ELSE {"shade"}

InitLut ==
  /\ mode = "lut"
  /\ canvasMaxDim \in {SmallCanvasDim, CANVAS_DIM_PROBE_MAX}
  /\ GenIdle
  /\ CubeIdle
  /\ DetectIdle
  /\ TileIdle
  /\ QuantIdle
  /\ FilterIdle
  /\ Step3Idle

\* generateStep1Pattern(N, M, layout, ...), up to the tile loop: the
\* dimension check, the canvas and its 2D context (ctxOk: getContext gave one).
GenStart(N, M, layout, ctxOk) ==
  /\ mode = "lut"
  /\ g1pc = "idle"
  /\ pattern' = Geom(N, M, layout)
  /\ LET d == computeDims(N, M, layout) IN
     IF d.width > canvasMaxDim \/ d.height > canvasMaxDim
     THEN /\ g1pc' = "failed"
          /\ g1err' = [kind |-> "dimension", width |-> d.width, height |-> d.height,
                       mMax |-> Max(1, canvasMaxDim \div (N * N))]
          /\ UNCHANGED <<canvas, paints>>
     ELSE /\ canvas' = BlankImage(d.width, d.height)
          /\ paints' = [p \in 0 .. (d.width * d.height - 1) |-> 0]
          /\ IF ctxOk
             THEN g1pc' = "loop" /\ UNCHANGED g1err
             ELSE g1pc' = "failed" /\ g1err' = Failure("Could not create 2D context.")
  /\ g1t' = 0
  /\ UNCHANGED <<mode, step3Vars, filterVars, imgW, imgH, detected, canvasMaxDim, g1cancel, g1progress,
                 tileVars, quantVars, cubeVars>>

\* Faulty variant: the loop suspends when the number of tiles filled is a
\* multiple of yieldEvery.
GenTile_yieldAfterBlock ==
  /\ mode = "lut"
  /\ g1pc = "loop"
  /\ g1t < pattern.N * pattern.N * pattern.N
  /\ IF g1cancel
     THEN /\ g1pc' = "failed"
          /\ g1err' = Failure("Cancelled.")
          /\ UNCHANGED <<g1t, g1progress, canvas, paints>>
     ELSE /\ canvas' = paintTile(canvas, g1t, pattern.N, pattern.M, pattern.layout)
          /\ paints' = countTile(paints, canvas, g1t, pattern.N, pattern.M, pattern.layout)
          /\ IF (g1t + 1) % yieldEvery = 0
             THEN /\ g1progress' = <<g1t + 1, pattern.N * pattern.N * pattern.N>>
                  /\ g1pc' = "yield"
                  /\ UNCHANGED g1t
             ELSE /\ g1t' = g1t + 1
                  /\ UNCHANGED <<g1pc, g1progress>>
          /\ UNCHANGED g1err
  /\ UNCHANGED <<mode, step3Vars, filterVars, detectVars, canvasMaxDim, g1cancel, tileVars, quantVars, cubeVars>>

\* One iteration of the tile loop of generateStep1Pattern, up to its await.
GenTile ==
  /\ mode = "lut"
  /\ g1pc = "loop"
  /\ g1t < pattern.N * pattern.N * pattern.N
  /\ IF g1cancel
     THEN /\ g1pc' = "failed"
          /\ g1err' = Failure("Cancelled.")
          /\ UNCHANGED <<g1t, g1progress, canvas, paints>>
     ELSE /\ canvas' = paintTile(canvas, g1t, pattern.N, pattern.M, pattern.layout)
          /\ paints' = countTile(paints, canvas, g1t, pattern.N, pattern.M, pattern.layout)
          /\ IF g1t % yieldEvery = 0
             THEN /\ g1progress' = <<g1t, pattern.N * pattern.N * pattern.N>>
                  /\ g1pc' = "yield"
                  /\ UNCHANGED g1t
             ELSE /\ g1t' = g1t + 1
                  /\ UNCHANGED <<g1pc, g1progress>>
          /\ UNCHANGED g1err
  /\ UNCHANGED <<mode, step3Vars, filterVars, detectVars, canvasMaxDim, g1cancel, tileVars, quantVars, cubeVars>>

\* generateStep1Pattern resumes after "await nextFrame()" in the loop.
GenResume ==
  /\ mode = "lut"
  /\ g1pc = "yield"
  /\ g1pc' = "loop"
  /\ g1t' = g1t + 1
  /\ UNCHANGED <<mode, step3Vars, filterVars, detectVars, canvasMaxDim, g1cancel, g1err, g1progress, canvas,
                 paints, tileVars, quantVars, cubeVars>>

\* The loop of generateStep1Pattern ends: onProgress(1), then the await
\* before the PNG is encoded.
GenFinish ==
  /\ mode = "lut"
  /\ g1pc = "loop"
  /\ g1t >= pattern.N * pattern.N * pattern.N
  /\ g1progress' = <<1, 1>>
  /\ g1pc' = "encode"
  /\ UNCHANGED <<mode, step3Vars, filterVars, detectVars, canvasMaxDim, g1t, g1cancel, g1err, canvas, paints,
                 tileVars, quantVars, cubeVars>>

\* canvasToPngBlob(canvas): the blob (blobOk) or "Failed to create PNG blob.".
GenEncode(blobOk) ==
  /\ mode = "lut"
  /\ g1pc = "encode"
  /\ IF blobOk
     THEN g1pc' = "done" /\ UNCHANGED g1err
     ELSE g1pc' = "failed" /\ g1err' = Failure("Failed to create PNG blob.")
  /\ UNCHANGED <<mode, step3Vars, filterVars, detectVars, canvasMaxDim, g1t, g1cancel, g1progress, canvas,
                 paints, tileVars, quantVars, cubeVars>>

\* The holder of cancelRef sets the flag while generateStep1Pattern is suspended.
GenCancel ==
  /\ mode = "lut"
  /\ g1pc \in {"yield", "encode"}
  /\ ~g1cancel
  /\ g1cancel' = TRUE
  /\ UNCHANGED <<mode, step3Vars, filterVars, detectVars, canvasMaxDim, g1pc, g1t, g1err, g1progress, canvas,
                 paints, tileVars, quantVars, cubeVars>>

\* The PNG of Step 1, after the external transform xf, is loaded in Step 3:
\* loadPngToImageData, detectGeometry, step3Loaded.
Step3Load(xf) ==
  /\ mode = "lut"
  /\ g1pc = "done"
  /\ g3pc = "idle"
  /\ img3 = NoImage
  /\ LET img == transformImage(xf, canvas)
         geom == detectGeometry(img.width, img.height)
     IN  /\ imgW' = img.width
         /\ imgH' = img.height
         /\ detected' = geom
         /\ img3' = IF geom.kind = "geom" THEN img ELSE NoImage
         /\ img3xf' = IF geom.kind = "geom" THEN xf ELSE "none"
  /\ UNCHANGED <<mode, step3Vars, filterVars, pattern, genVars, tileVars, quantVars,
                 g3pc, g3r, g3g, g3b, g3done, g3cancel, g3err, g3progress, lines>>

\* generateCubeLut(step3Loaded.imageData, step3Loaded.geom, ...) up to its loops.
LutStart ==
  /\ mode = "lut"
  /\ g3pc = "idle"
  /\ img3 # NoImage
  /\ detected.kind = "geom"
  /\ lines' = cubeHeader(detected)
  /\ g3pc' = "loop"
  /\ g3r' = 0 /\ g3g' = 0 /\ g3b' = 0
  /\ g3done' = 0
  /\ g3cancel' = FALSE
  /\ UNCHANGED <<mode, step3Vars, filterVars, detectVars, genVars, tileVars, quantVars, img3, img3xf, g3err, g3progress>>

\* The loop variables after "r++" and the enclosing "g++", "b++".
nextCell(r, g, b, N) ==
  IF r + 1 < N THEN <<r + 1, g, b>>
  ELSE IF g + 1 < N THEN <<0, g + 1, b>>
  ELSE <<0, 0, b + 1>>

\* One iteration of the innermost loop of generateCubeLut, up to its await.
LutCell ==
  /\ mode = "lut"
  /\ g3pc = "loop"
  /\ g3b < detected.N
  /\ IF g3cancel
     THEN /\ g3pc' = "failed"
          /\ g3err' = Failure("Cancelled.")
          /\ UNCHANGED <<g3r, g3g, g3b, g3done, g3progress, lines>>
     ELSE /\ lines' = Append(lines, cubeLine(img3, detected, g3r, g3g, g3b))
          /\ g3done' = g3done + 1
          /\ IF (g3done + 1) % yieldEvery = 0
             THEN /\ g3progress' = <<g3done + 1, detected.N * detected.N * detected.N>>
                  /\ g3pc' = "yield"
                  /\ UNCHANGED <<g3r, g3g, g3b>>
             ELSE /\ g3r' = nextCell(g3r, g3g, g3b, detected.N)[1]
                  /\ g3g' = nextCell(g3r, g3g, g3b, detected.N)[2]
                  /\ g3b' = nextCell(g3r, g3g, g3b, detected.N)[3]
                  /\ UNCHANGED <<g3pc, g3progress>>
          /\ UNCHANGED g3err
  /\ UNCHANGED <<mode, step3Vars, filterVars, detectVars, genVars, tileVars, quantVars, img3, img3xf, g3cancel>>

\* generateCubeLut resumes after "await nextFrame()".
LutResume ==
  /\ mode = "lut"
  /\ g3pc = "yield"
  /\ g3pc' = "loop"
  /\ g3r' = nextCell(g3r, g3g, g3b, detected.N)[1]
  /\ g3g' = nextCell(g3r, g3g, g3b, detected.N)[2]
  /\ g3b' = nextCell(g3r, g3g, g3b, detected.N)[3]
  /\ UNCHANGED <<mode, step3Vars, filterVars, detectVars, genVars, tileVars, quantVars, img3, img3xf, g3done,
                 g3cancel, g3err, g3progress, lines>>

\* The loops of generateCubeLut end: onProgress(1) and the Blob of the lines.
LutFinish ==
  /\ mode = "lut"
  /\ g3pc = "loop"
  /\ g3b >= detected.N
  /\ g3progress' = <<1, 1>>
  /\ g3pc' = "done"
  /\ UNCHANGED <<mode, step3Vars, filterVars, detectVars, genVars, tileVars, quantVars, img3, img3xf, g3r, g3g, g3b,
                 g3done, g3cancel, g3err, lines>>

\* The Step 3 Cancel button is clicked while generateCubeLut is suspended.
LutCancel ==
  /\ mode = "lut"
  /\ g3pc = "yield"
  /\ ~g3cancel
  /\ g3cancel' = TRUE
  /\ UNCHANGED <<mode, step3Vars, filterVars, detectVars, genVars, tileVars, quantVars, img3, img3xf, g3pc, g3r, g3g,
                 g3b, g3done, g3err, g3progress, lines>>

NextLut ==
  \/ \E in \in LutInputs, ctxOk \in BOOLEAN : GenStart(in[1], in[2], in[3], ctxOk)
  \/ GenTile
  \/ GenResume
  \/ GenFinish
  \/ \E blobOk \in BOOLEAN : GenEncode(blobOk)
  \/ GenCancel
  \/ \E xf \in transformsFor(pattern) : Step3Load(xf)
  \/ LutStart
  \/ LutCell
  \/ LutResume
  \/ LutFinish
  \/ LutCancel

SpecLut == InitLut /\ [][NextLut]_vars

\* ------------------------------------------------------------- SpecFilter
\* Step 2: the file input, the Run and Cancel buttons and the runs of
\* applyStep2Filter.  An action is the code run from one await to the next.
InitFilter ==
  /\ mode = "filter"
  /\ heap = [id \in HeapIds |-> NoBuffer]
  /\ step2Loaded = NotLoaded
  /\ step2Loading = {}
  /\ step2Runs = [i \in RunIds |-> IdleRun]
  /\ step2CancelRef = 0
  /\ step2Cancelled0 = FALSE
  /\ step2RunBtnDisabled = FALSE
  /\ step2CancelBtnDisabled \in BOOLEAN
  /\ step2ProgressHidden = TRUE
  /\ step2Download = "none"
  /\ step2Status = ""
  /\ DetectIdle
  /\ TileIdle
  /\ QuantIdle
  /\ LutIdle
  /\ Step3Idle

\* Faulty variant: the controls are reset after the download only, not in a
\* finally block.
SetControls_noFinally(run) ==
  /\ step2RunBtnDisabled' = (run.pc # "done")
  /\ step2CancelBtnDisabled' = (run.pc = "done")
  /\ step2ProgressHidden' = (run.pc = "done")
  /\ step2Status' = statusAfter(run)

\* The controls and the status line after the step that left the run as it is:
\* disabled / shown while the handler is suspended, reset by its finally.
SetControls(run) ==
  /\ step2RunBtnDisabled' = InFlight(run)
  /\ step2CancelBtnDisabled' = ~InFlight(run)
  /\ step2ProgressHidden' = ~InFlight(run)
  /\ step2Status' = statusAfter(run)

\* step2File "change" with the file f chosen, up to "await loadPngToImageData(f)".
Step2FileChange(f) ==
  /\ mode = "filter"
  /\ f \notin step2Loading
  /\ Cardinality(step2Loading) < MaxPending
  /\ step2Loading' = step2Loading \cup {f}
  /\ step2Download' = "none"
  /\ step2Status' = "Loading image..."
  /\ UNCHANGED <<mode, step3Vars, heap, step2Loaded, step2Runs, step2CancelRef, step2Cancelled0,
                 step2RunBtnDisabled, step2CancelBtnDisabled, step2ProgressHidden,
                 detectVars, tileVars, quantVars, genVars, cubeVars>>

\* loadPngToImageData(f) settles: step2Loaded takes the new ImageData (ok),
\* or becomes null when the load throws.
Step2FileLoaded(f, ok) ==
  /\ mode = "filter"
  /\ f \in step2Loading
  /\ step2Loading' = step2Loading \ {f}
  /\ LET freed == collect(heap, NotLoaded, step2Runs)
         id == newId(freed)
     IN  IF ok
         THEN /\ heap' = [freed EXCEPT ![id] = decodePng(f)]
              /\ step2Loaded' = [file |-> f, imageData |-> id]
              /\ step2Status' = "Ready."
         ELSE /\ heap' = freed
              /\ step2Loaded' = NotLoaded
              /\ step2Status' = "Could not load image."
  /\ UNCHANGED <<mode, step3Vars, step2Runs, step2CancelRef, step2Cancelled0, step2RunBtnDisabled,
                 step2CancelBtnDisabled, step2ProgressHidden, step2Download,
                 detectVars, tileVars, quantVars, genVars, cubeVars>>

\* step2CancelBtn "click": step2CancelRef.cancelled = true.
Step2Cancel ==
  /\ mode = "filter"
  /\ ~step2CancelBtnDisabled
  /\ IF step2CancelRef = 0
     THEN step2Cancelled0' = TRUE /\ UNCHANGED step2Runs
     ELSE /\ step2Runs' = [step2Runs EXCEPT ![step2CancelRef].cancelled = TRUE]
          /\ UNCHANGED step2Cancelled0
  /\ step2Status' = "Cancelling..."
  /\ UNCHANGED <<mode, step3Vars, heap, step2Loaded, step2Loading, step2CancelRef,
                 step2RunBtnDisabled, step2CancelBtnDisabled, step2ProgressHidden,
                 step2Download, detectVars, tileVars, quantVars, genVars, cubeVars>>

\* The run in slot i becomes run0 advanced by res, a step of applyStep2Filter
\* on the ImageData in cell run0.img of heap0.
StepRun(i, runs0, run0, heap0, res) ==
  /\ step2Runs' = [runs0 EXCEPT ![i] = runAfter(run0, res)]
  /\ heap' = [heap0 EXCEPT ![run0.img].data = res.data]
  /\ SetControls(runAfter(run0, res))

\* The flag of the object step2CancelRef refers to.
step2Flag == IF step2CancelRef = 0 THEN step2Cancelled0 ELSE step2Runs[step2CancelRef].cancelled

\* Faulty variant: the run is handed the cancelRef object of the run before.
StartRun_sameCancelRef(i, script, runs0, copy) ==
  /\ step2CancelRef' = i
  /\ StepRun(i, runs0,
             [IdleRun EXCEPT !.caller = "handler", !.script = script, !.img = copy.id,
                             !.before = copy.heap[copy.id].data, !.cancelled = step2Flag],
             copy.heap,
             applyStep2Filter(copy.heap[copy.id], script, 0, 0, step2Flag, FALSE))

\* The Run handler from "step2CancelRef = { cancelled: false }" to the first
\* await, in slot i, copy being the result of cloning the loaded image.
StartRun(i, script, runs0, copy) ==
  /\ step2CancelRef' = i
  /\ StepRun(i, runs0,
             [IdleRun EXCEPT !.caller = "handler", !.script = script, !.img = copy.id,
                             !.before = copy.heap[copy.id].data],
             copy.heap,
             applyStep2Filter(copy.heap[copy.id], script, 0, 0, FALSE, FALSE))

\* The lowest slot whose run is not in flight.
freeSlot(runs) ==
  CHOOSE k \in RunIds : ~InFlight(runs[k]) /\ \A j \in RunIds : j < k => InFlight(runs[j])

\* StartRun in slot i, whose finished run and its ImageData are dropped.
StartRunIn(i, script) ==
  StartRun(i, script, [step2Runs EXCEPT ![i] = IdleRun],
           cloneImage(collect(heap, step2Loaded, [step2Runs EXCEPT ![i] = IdleRun]),
                      step2Loaded.imageData))

\* step2RunBtn "click" with the script typed, up to the first await: the
\* null and compile checks, the fresh cancelRef, the copy of the loaded image
\* and applyStep2Filter up to its first suspension, return or throw.
Step2Run(script) ==
  /\ mode = "filter"
  /\ ~step2RunBtnDisabled
  /\ step2Download' = "none"
  /\ IF step2Loaded = NotLoaded
     THEN /\ step2Status' = "Load a PNG first."
          /\ UNCHANGED <<heap, step2Runs, step2CancelRef, step2RunBtnDisabled,
                         step2CancelBtnDisabled, step2ProgressHidden>>
     ELSE IF ~compiles(script)
     THEN /\ step2Status' = "Script compile error"
          /\ UNCHANGED <<heap, step2Runs, step2CancelRef, step2RunBtnDisabled,
                         step2CancelBtnDisabled, step2ProgressHidden>>
     ELSE /\ \E k \in RunIds : ~InFlight(step2Runs[k])
          /\ StartRunIn(freeSlot(step2Runs), script)
  /\ UNCHANGED <<mode, step3Vars, step2Loaded, step2Loading, step2Cancelled0,
                 detectVars, tileVars, quantVars, genVars, cubeVars>>

\* applyStep2Filter resumes after "await nextFrame()": the check of the
\* flag, then the loop up to the next suspension, return or throw.
FilterResume(i) ==
  /\ mode = "filter"
  /\ step2Runs[i].pc = "yield"
  /\ StepRun(i, step2Runs, step2Runs[i], heap,
             applyStep2Filter(heap[step2Runs[i].img], step2Runs[i].script, step2Runs[i].next,
                              step2Runs[i].processed, step2Runs[i].cancelled, TRUE))
  /\ UNCHANGED <<mode, step3Vars, step2Loaded, step2Loading, step2CancelRef, step2Cancelled0,
                 step2Download, detectVars, tileVars, quantVars, genVars, cubeVars>>

\* The Run handler resumes after its "await nextFrame()":
\* makePngFromImageData(out) up to canvas.toBlob (ctxOk: getContext gave a context).
Step2Encode(i, ctxOk) ==
  /\ mode = "filter"
  /\ step2Runs[i].pc = "encode"
  /\ LET run == IF ctxOk THEN [step2Runs[i] EXCEPT !.pc = "blob"]
                ELSE [step2Runs[i] EXCEPT !.pc = "failed",
                                          !.err = Error2("Could not create 2D context.")]
     IN  /\ step2Runs' = [step2Runs EXCEPT ![i] = run]
         /\ SetControls(run)
  /\ UNCHANGED <<mode, step3Vars, heap, step2Loaded, step2Loading, step2CancelRef, step2Cancelled0,
                 step2Download, detectVars, tileVars, quantVars, genVars, cubeVars>>

\* canvas.toBlob settles (blobOk: with a blob): the download named after
\* step2Loaded.file, "Done.", and the finally block.
Step2Blob(i, blobOk) ==
  /\ mode = "filter"
  /\ step2Runs[i].pc = "blob"
  /\ LET run == IF ~blobOk
                THEN [step2Runs[i] EXCEPT !.pc = "failed",
                                          !.err = Error2("Failed to create PNG blob.")]
                ELSE IF step2Loaded = NotLoaded
                THEN [step2Runs[i] EXCEPT !.pc = "failed", !.err = Error2("TypeError")]
                ELSE [step2Runs[i] EXCEPT !.pc = "done"]
     IN  /\ step2Runs' = [step2Runs EXCEPT ![i] = run]
         /\ step2Download' = IF run.pc = "done" THEN step2Loaded.file ELSE step2Download
         /\ SetControls(run)
  /\ UNCHANGED <<mode, step3Vars, heap, step2Loaded, step2Loading, step2CancelRef, step2Cancelled0,
                 detectVars, tileVars, quantVars, genVars, cubeVars>>

NextFilter ==
  \/ \E f \in Files : Step2FileChange(f)
  \/ \E f \in Files, ok \in BOOLEAN : Step2FileLoaded(f, ok)
  \/ Step2Cancel
  \/ \E script \in Scripts :
       /\ step2Loaded # NotLoaded => script \in scriptsFor(step2Loaded.file)
       /\ Step2Run(script)
  \/ \E i \in RunIds : FilterResume(i)
  \/ \E i \in RunIds, ctxOk \in BOOLEAN : Step2Encode(i, ctxOk)
  \/ \E i \in RunIds, blobOk \in BOOLEAN : Step2Blob(i, blobOk)

SpecFilter == InitFilter /\ [][NextFilter]_vars


\* -------------------------------------------------------------- SpecCalls
\* generateStep1Pattern, generateCubeLut and applyStep2Filter called directly,
\* one at a time, each with a cancelRef whose flag the caller may have set
\* before the call.  The variables are those of SpecLut and of the Step 2 runs.

\* The lattices handed to generateStep1Pattern: N = 2 with M = 1 and with the
\* smallest M whose pattern exceeds SmallCanvasDim.
CallInputs ==
  {in \in LutInputs :
     /\ in[1] = 2
     /\ \/ in[2] = 1
        \/ /\ in[1] * in[1] * in[2] > SmallCanvasDim
           /\ in[1] * in[1] * (in[2] - 1) <= SmallCanvasDim}

\* The scripts handed to applyStep2Filter.
CallScripts == {Script_invert, Script_throwAt}

\* No call is in progress: none is suspended or inside its loop.
Quiet ==
  /\ g1pc \in {"idle", "done", "failed"}
  /\ g3pc \in {"idle", "done", "failed"}
  /\ \A i \in RunIds : ~InFlight(step2Runs[i])

InitCalls == InitLut

\* The caller, its pattern loaded in Step 3, prepares another call of
\* generateStep1Pattern with a cancelRef whose flag is cancelled.
GenAgain(cancelled) ==
  /\ mode = "lut"
  /\ Quiet
  /\ g1pc = "done"
  /\ img3 # NoImage
  /\ g1pc' = "idle"
  /\ g1t' = 0
  /\ g1cancel' = cancelled
  /\ g1err' = NoError
  /\ g1progress' = <<0, 1>>
  /\ canvas' = NoImage
  /\ paints' = <<>>
  /\ UNCHANGED <<mode, step3Vars, filterVars, detectVars, canvasMaxDim, tileVars, quantVars, cubeVars>>

\* generateCubeLut(img, geom, onProgress, cancelRef) up to its loops, the flag
\* of cancelRef being cancelled.
LutCall(cancelled) ==
  /\ mode = "lut"
  /\ Quiet
  /\ g3pc = "idle"
  /\ img3 # NoImage
  /\ detected.kind = "geom"
  /\ lines' = cubeHeader(detected)
  /\ g3pc' = "loop"
  /\ g3r' = 0 /\ g3g' = 0 /\ g3b' = 0
  /\ g3done' = 0
  /\ g3cancel' = cancelled
  /\ UNCHANGED <<mode, step3Vars, filterVars, detectVars, genVars, tileVars, quantVars, img3, img3xf,
                 g3err, g3progress>>

\* The run in slot i becomes run0 advanced by res, a step of applyStep2Filter
\* on the ImageData in cell run0.img of heap0; no control of the page is involved.
StepCall(i, runs0, run0, heap0, res) ==
  /\ step2Runs' = [runs0 EXCEPT ![i] = runAfter(run0, res)]
  /\ heap' = [heap0 EXCEPT ![run0.img].data = res.data]

\* applyStep2Filter(img, ...) in slot i on the ImageData img put in cell id of heap0.
StartCall(i, script, cancelled, runs0, heap0, id, img) ==
  StepCall(i, runs0,
           [IdleRun EXCEPT !.caller = "direct", !.script = script, !.img = id,
                           !.before = img.data, !.cancelled = cancelled],
           [heap0 EXCEPT ![id] = img],
           applyStep2Filter(img, script, 0, 0, cancelled, FALSE))

\* StartCall on a free cell of the heap, the run and the ImageData the slot
\* held being dropped.
StartCallIn(i, script, cancelled, heap0, img) ==
  StartCall(i, script, cancelled, [step2Runs EXCEPT ![i] = IdleRun], heap0, newId(heap0), img)

\* applyStep2Filter(img, width, height, filterFn, onProgress, cancelRef) up to
\* its first await, return or throw: img is the decoded file f, filterFn the
\* compiled script, and the flag of cancelRef is cancelled.
FilterCall(f, script, cancelled) ==
  /\ mode = "lut"
  /\ Quiet
  /\ compiles(script)
  /\ StartCallIn(freeSlot(step2Runs), script, cancelled,
                 collect(heap, NotLoaded,
                         [step2Runs EXCEPT ![freeSlot(step2Runs)] = IdleRun]),
                 decodePng(f))
  /\ UNCHANGED <<mode, step3Vars, step2Loaded, step2Loading, step2CancelRef, step2Cancelled0,
                 step2RunBtnDisabled, step2CancelBtnDisabled, step2ProgressHidden,
                 step2Download, step2Status,
                 detectVars, tileVars, quantVars, genVars, cubeVars>>

NextCalls ==
  \/ \E in \in CallInputs, ctxOk \in BOOLEAN : Quiet /\ GenStart(in[1], in[2], in[3], ctxOk)
  \/ GenTile
  \/ GenResume
  \/ GenFinish
  \/ \E blobOk \in BOOLEAN : GenEncode(blobOk)
  \/ \E xf \in Transforms : Quiet /\ Step3Load(xf)
  \/ \E cancelled \in BOOLEAN : GenAgain(cancelled)
  \/ \E cancelled \in BOOLEAN : LutCall(cancelled)
  \/ LutCell
  \/ LutFinish
  \/ \E script \in CallScripts, cancelled \in BOOLEAN : FilterCall("small.png", script, cancelled)

SpecCalls == InitCalls /\ [][NextCalls]_vars

\* ------------------------------------------------------------ Step 3 images
\* The smallest lattice whose N^3 cells are a multiple of yieldEvery, so that
\* a suspension of generateCubeLut follows its last cell.
SmallestRoundN ==
  CHOOSE n \in 2 .. DetectMaxN :
    /\ (n * n * n) % yieldEvery = 0
    /\ \A k \in 2 .. n - 1 : (k * k * k) % yieldEvery # 0

\* A wide image of tile size 1 for the lattice N: two runs of equal pixels,
\* the first split pixels long.
wideImage(N, split, px1, px2) ==
  ImageData(<<[len |-> split, px |-> px1], [len |-> N * N * N - split, px |-> px2]>>,
            N * N, N)

\* The PNG files offered to the Step 3 file input: images whose N^3 cells
\* stay below yieldEvery (no suspension) and exceed it (one suspension), and
\* an image whose dimensions fit no lattice.
Files3 == {"tiny.png", "large.png", "odd.png"}

\* The images handed to generateCubeLut when it is called directly: those of
\* Step 3 that have a lattice, one with several suspensions and one whose
\* last cell is followed by a suspension.
CubeFiles == {"tiny.png", "large.png", "larger.png", "round.png"}

\* loadPngToImageData(f) when the file decodes, the pixels held as runs.
decodePng3(f) ==
  CASE f = "tiny.png" -> wideImage(2, 3, <<0, 0, 0, 255>>, <<200, 100, 51, 255>>)
    [] f = "large.png" ->
         wideImage(LargeN, yieldEvery - 1, <<10, 200, 30, 255>>, <<220, 40, 128, 255>>)
    [] f = "larger.png" ->
         wideImage(2 * LargeN, 3 * yieldEvery, <<90, 80, 70, 255>>, <<7, 8, 9, 255>>)
    [] f = "round.png" ->
         wideImage(SmallestRoundN, 2 * yieldEvery + 1, <<1, 2, 3, 255>>, <<255, 0, 255, 255>>)
    [] OTHER ->
         ImageData(<<[len |-> 35, px |-> <<9, 9, 9, 255>>]>>, 7, 5)

\* The ImageData as sampleTileColor indexes it for the tile of cell (r, g, b):
\* data[p] is pixel p, for the indices p it reads.
indexed(img, geom, r, g, b) ==
  LET xy == cubeTileCoords(r, g, b, geom.N, geom.layout)
      pts == samplePoints(img.width, img.height, xy.xTile, xy.yTile, geom.M)
  IN  [width |-> img.width, height |-> img.height,
       data |-> [p \in {pts[k] : k \in 1 .. Len(pts)} |-> pixelAt(img.data, p)]]

\* The data line generateCubeLut pushes for the cell (r, g, b) of img.
cellLine(img, geom, r, g, b) == cubeLine(indexed(img, geom, r, g, b), geom, r, g, b)

\* The cell of iteration k of the loops of generateCubeLut (r fastest, b slowest).
cellAt(k, N) == [r |-> k % N, g |-> (k \div N) % N, b |-> k \div (N * N)]

\* The iterations from .. to - 1 in stretches that read the same pixels: in a
\* wide image of tile size 1 iteration k reads pixel k alone (tile
\* (r + g * N, b), one sample), so a run of equal pixels is such a stretch;
\* otherwise the single iterations.
cellSpans(img, geom, from, to) ==
  IF geom.M = 1 /\ geom.layout = "wide" /\ img.width = geom.N * geom.N
  THEN LET sl == slice(img.data, from, to) IN
       [j \in 1 .. Len(sl) |-> [len |-> sl[j].len, at |-> from + runStart(sl, j)]]
  ELSE [j \in 1 .. to - from |-> [len |-> 1, at |-> from + j - 1]]

\* The data lines pushed by the iterations of spans, as runs of equal lines
\* <<[len |-> n, px |-> line], ...>>.
spanLines(img, geom, spans) ==
  compress([j \in 1 .. Len(spans) |->
              [len |-> spans[j].len,
               px |-> cellLine(img, geom, cellAt(spans[j].at, geom.N).r,
                               cellAt(spans[j].at, geom.N).g, cellAt(spans[j].at, geom.N).b)]])

\* The iteration after the last one generateCubeLut runs before it suspends
\* or leaves its loops: it suspends when done reaches a multiple of yieldEvery.
cubeChunkEnd(total, done) == Min(total, done + yieldEvery - (done % yieldEvery))

\* The way generateCubeLut leaves the code it runs between two awaits, added
\* being the lines of the iterations done .. to - 1: Cancelled (the check at
\* the head of an iteration, when one is left), the next await or the return
\* of the blob.  reports are the arguments of onProgress, <<num, den>>.
cubeOutcome(total, done, to, cancelled, added) ==
  IF cancelled /\ done < total
  THEN [kind |-> "throw", err |-> Error2("Cancelled."), done |-> done, lines |-> <<>>,
        reports |-> <<>>]
  ELSE IF to > done /\ to % yieldEvery = 0
  THEN [kind |-> "await", err |-> NoError2, done |-> to, lines |-> added,
        reports |-> << <<to, total>> >>]
  ELSE [kind |-> "return", err |-> NoError2, done |-> to, lines |-> added,
        reports |-> << <<1, 1>> >>]

\* cubeOutcome for the iterations done .. to - 1.
cubeChunk(img, geom, done, to, cancelled) ==
  cubeOutcome(geom.N * geom.N * geom.N, done, to, cancelled,
              spanLines(img, geom, cellSpans(img, geom, done, to)))

\* generateCubeLut from one suspension to the next: the code run from the
\* call (done = 0) or from the return of "await nextFrame()" up to the next
\* await, return or throw.
generateCubeLut(img, geom, done, cancelled) ==
  cubeChunk(img, geom, done, cubeChunkEnd(geom.N * geom.N * geom.N, done), cancelled)

\* The generation after generateCubeLut went from one suspension to the next.
genAfter(gen, res) ==
  [gen EXCEPT !.pc = IF res.kind = "await" THEN "yield"
                     ELSE IF res.kind = "throw" THEN "failed" ELSE "returned",
              !.done = res.done,
              !.lines = compress(@ \o res.lines),
              !.reports = @ \o res.reports,
              !.err = res.err,
              !.returned = (res.kind = "return")]

\* The generation after the Generate handler went on from gen: with the blob
\* returned it reads step3Loaded.file.name and step3Loaded.geom.N for the name
\* of the download, loaded being step3Loaded as it is by then.
handlerAfter(gen, loaded) ==
  IF gen.pc # "returned" THEN gen
  ELSE IF loaded = NotLoaded3
  THEN [gen EXCEPT !.pc = "failed", !.err = Error2("TypeError")]
  ELSE [gen EXCEPT !.pc = "done"]

\* The status line after a step of the Generate handler.
statusAfter3(gen) ==
  IF gen.pc = "yield" THEN "Generating LUT..."
  ELSE IF gen.pc = "done" THEN "Done."
  ELSE gen.err.kind

\* -------------------------------------------------------------- SpecStep3
\* Step 3: the file input, the Generate and Cancel buttons and the runs of
\* generateCubeLut.  An action is the code run from one await to the next.
InitStep3 ==
  /\ mode = "step3"
  /\ step3Loaded = NotLoaded3
  /\ step3Loading = {}
  /\ step3Gens = [i \in GenIds |-> IdleGen]
  /\ step3CancelRef = 0
  /\ step3Cancelled0 = FALSE
  /\ step3GenerateBtnDisabled = FALSE
  /\ step3CancelBtnDisabled \in BOOLEAN
  /\ step3ProgressHidden = TRUE
  /\ step3Download = NoDownload3
  /\ step3Status = ""
  /\ DetectIdle
  /\ TileIdle
  /\ QuantIdle
  /\ LutIdle
  /\ FilterIdle

\* The handler of the generation is suspended at an await.
InFlight3(gen) == gen.pc = "yield"

\* step3File "change" with the file f chosen ("none": the chooser was
\* dismissed), up to "await loadPngToImageData(f)".
Step3FileChange(f) ==
  /\ mode = "step3"
  /\ f \notin step3Loading
  /\ Cardinality(step3Loading) < MaxPending
  /\ step3Download' = NoDownload3
  /\ step3GenerateBtnDisabled' = TRUE
  /\ step3Loaded' = NotLoaded3
  /\ IF f = "none"
     THEN UNCHANGED <<step3Loading, step3Status>>
     ELSE /\ step3Loading' = step3Loading \cup {f}
          /\ step3Status' = "Loading image..."
  /\ UNCHANGED <<mode, step3Gens, step3CancelRef, step3Cancelled0, step3CancelBtnDisabled,
                 step3ProgressHidden, detectVars, tileVars, quantVars, genVars, cubeVars,
                 filterVars>>

\* loadPngToImageData(f) settles: with an image whose dimensions give a
\* geometry step3Loaded takes it and the Generate button is enabled;
\* otherwise the geometry error, or the error of the load, is the status.
Step3FileLoaded(f, ok) ==
  /\ mode = "step3"
  /\ f \in step3Loading
  /\ step3Loading' = step3Loading \ {f}
  /\ LET geom == detectGeometry(decodePng3(f).width, decodePng3(f).height) IN
     IF ok /\ geom.kind = "geom"
     THEN /\ step3Loaded' = [file |-> f, imageData |-> decodePng3(f), geom |-> geom]
          /\ step3GenerateBtnDisabled' = FALSE
          /\ step3Status' = "Ready."
     ELSE /\ step3Status' = IF ok THEN "Could not detect geometry."
                            ELSE "Could not load image."
          /\ UNCHANGED <<step3Loaded, step3GenerateBtnDisabled>>
  /\ UNCHANGED <<mode, step3Gens, step3CancelRef, step3Cancelled0, step3CancelBtnDisabled,
                 step3ProgressHidden, step3Download, detectVars, tileVars, quantVars,
                 genVars, cubeVars, filterVars>>

\* step3CancelBtn "click": step3CancelRef.cancelled = true.
Step3Cancel ==
  /\ mode = "step3"
  /\ ~step3CancelBtnDisabled
  /\ IF step3CancelRef = 0
     THEN step3Cancelled0' = TRUE /\ UNCHANGED step3Gens
     ELSE /\ step3Gens' = [step3Gens EXCEPT ![step3CancelRef].cancelled = TRUE]
          /\ UNCHANGED step3Cancelled0
  /\ step3Status' = "Cancelling..."
  /\ UNCHANGED <<mode, step3Loaded, step3Loading, step3CancelRef,
                 step3GenerateBtnDisabled, step3CancelBtnDisabled, step3ProgressHidden,
                 step3Download, detectVars, tileVars, quantVars, genVars, cubeVars,
                 filterVars>>

\* The generation in slot i becomes gen, and when the handler has run to its
\* end: the download named after loaded (on success) and the finally block.
StepGen(i, gens0, gen, loaded) ==
  /\ step3Gens' = [gens0 EXCEPT ![i] = gen]
  /\ step3Status' = statusAfter3(gen)
  /\ step3Download' = IF gen.pc = "done" THEN [file |-> loaded.file, N |-> loaded.geom.N]
                      ELSE step3Download
  /\ IF gen.pc = "yield"
     THEN UNCHANGED <<step3GenerateBtnDisabled, step3CancelBtnDisabled, step3ProgressHidden>>
     ELSE /\ step3GenerateBtnDisabled' = FALSE
          /\ step3CancelBtnDisabled' = TRUE
          /\ step3ProgressHidden' = TRUE

\* The lowest slot whose generation is not in flight.
freeSlot3(gens) ==
  CHOOSE k \in GenIds : ~InFlight3(gens[k]) /\ \A j \in GenIds : j < k => InFlight3(gens[j])

\* The Generate handler from "step3CancelRef = { cancelled: false }" on, in
\* slot i: the controls, then generateCubeLut(step3Loaded.imageData,
\* step3Loaded.geom, ...) up to its first suspension, or to the handler's end.
StartGen(i) ==
  /\ step3CancelRef' = i
  /\ step3Gens' = [step3Gens EXCEPT ![i] =
       handlerAfter(genAfter([IdleGen EXCEPT !.img = step3Loaded.imageData,
                                             !.geom = step3Loaded.geom],
                             generateCubeLut(step3Loaded.imageData, step3Loaded.geom,
                                             0, FALSE)),
                    step3Loaded)]
  /\ step3Status' = statusAfter3(step3Gens'[i])
  /\ step3Download' = IF step3Gens'[i].pc = "done"
                      THEN [file |-> step3Loaded.file, N |-> step3Loaded.geom.N]
                      ELSE NoDownload3
  /\ step3GenerateBtnDisabled' = InFlight3(step3Gens'[i])
  /\ step3CancelBtnDisabled' = ~InFlight3(step3Gens'[i])
  /\ step3ProgressHidden' = ~InFlight3(step3Gens'[i])

\* step3GenerateBtn "click", up to the first await or to the handler's end.
Step3Generate ==
  /\ mode = "step3"
  /\ ~step3GenerateBtnDisabled
  /\ IF step3Loaded = NotLoaded3
     THEN /\ step3Status' = "Load a processed PNG first."
          /\ step3Download' = NoDownload3
          /\ UNCHANGED <<step3Gens, step3CancelRef, step3GenerateBtnDisabled,
                         step3CancelBtnDisabled, step3ProgressHidden>>
     ELSE /\ \E k \in GenIds : ~InFlight3(step3Gens[k])
          /\ StartGen(freeSlot3(step3Gens))
  /\ UNCHANGED <<mode, step3Loaded, step3Loading, step3Cancelled0,
                 detectVars, tileVars, quantVars, genVars, cubeVars, filterVars>>

\* generateCubeLut resumes after "await nextFrame()": its loops up to the
\* next suspension, or to the end of the handler.
Step3Resume(i) ==
  /\ mode = "step3"
  /\ step3Gens[i].pc = "yield"
  /\ StepGen(i, step3Gens,
             handlerAfter(genAfter(step3Gens[i],
                                   generateCubeLut(step3Gens[i].img, step3Gens[i].geom,
                                                   step3Gens[i].done, step3Gens[i].cancelled)),
                          step3Loaded),
             step3Loaded)
  /\ UNCHANGED <<mode, step3Loaded, step3Loading, step3CancelRef, step3Cancelled0,
                 detectVars, tileVars, quantVars, genVars, cubeVars, filterVars>>

NextStep3 ==
  \/ \E f \in Files3 \cup {"none"} : Step3FileChange(f)
  \/ \E f \in Files3, ok \in BOOLEAN : Step3FileLoaded(f, ok)
  \/ Step3Cancel
  \/ Step3Generate
  \/ \E i \in GenIds : Step3Resume(i)

SpecStep3 == InitStep3 /\ [][NextStep3]_vars

\* ---------------------------------------------------------------- SpecCube
\* generateCubeLut called directly, one call at a time, with a cancelRef
\* whose flag the caller may set before the call and while it is suspended.
InitCube ==
  /\ mode = "cube"
  /\ DetectIdle
  /\ TileIdle
  /\ QuantIdle
  /\ LutIdle
  /\ FilterIdle
  /\ Step3Idle

\* generateCubeLut(img, geom, onProgress, cancelRef) up to its first await,
\* return or throw: img is the decoded file f, geom its detected geometry,
\* and the flag of cancelRef is cancelled.
CubeCall(f, cancelled) ==
  /\ mode = "cube"
  /\ \A i \in GenIds : ~InFlight3(step3Gens[i])
  /\ step3Gens' = [step3Gens EXCEPT ![freeSlot3(step3Gens)] =
       genAfter([IdleGen EXCEPT !.img = decodePng3(f),
                                !.geom = detectGeometry(decodePng3(f).width,
                                                        decodePng3(f).height),
                                !.cancelled = cancelled],
                generateCubeLut(decodePng3(f),
                                detectGeometry(decodePng3(f).width, decodePng3(f).height),
                                0, cancelled))]
  /\ UNCHANGED <<mode, step3Loaded, step3Loading, step3CancelRef, step3Cancelled0,
                 step3GenerateBtnDisabled, step3CancelBtnDisabled, step3ProgressHidden,
                 step3Download, step3Status, detectVars, tileVars, quantVars, genVars,
                 cubeVars, filterVars>>

\* generateCubeLut resumes after "await nextFrame()".
CubeResume(i) ==
  /\ mode = "cube"
  /\ step3Gens[i].pc = "yield"
  /\ step3Gens' = [step3Gens EXCEPT ![i] =
       genAfter(step3Gens[i],
                generateCubeLut(step3Gens[i].img, step3Gens[i].geom, step3Gens[i].done,
                                step3Gens[i].cancelled))]
  /\ UNCHANGED <<mode, step3Loaded, step3Loading, step3CancelRef, step3Cancelled0,
                 step3GenerateBtnDisabled, step3CancelBtnDisabled, step3ProgressHidden,
                 step3Download, step3Status, detectVars, tileVars, quantVars, genVars,
                 cubeVars, filterVars>>

\* The caller sets cancelRef.cancelled while the call is suspended.
CubeCancel(i) ==
  /\ mode = "cube"
  /\ step3Gens[i].pc = "yield"
  /\ ~step3Gens[i].cancelled
  /\ step3Gens' = [step3Gens EXCEPT ![i].cancelled = TRUE]
  /\ UNCHANGED <<mode, step3Loaded, step3Loading, step3CancelRef, step3Cancelled0,
                 step3GenerateBtnDisabled, step3CancelBtnDisabled, step3ProgressHidden,
                 step3Download, step3Status, detectVars, tileVars, quantVars, genVars,
                 cubeVars, filterVars>>

NextCube ==
  \/ \E f \in CubeFiles, cancelled \in BOOLEAN : CubeCall(f, cancelled)
  \/ \E i \in GenIds : CubeResume(i)
  \/ \E i \in GenIds : CubeCancel(i)

SpecCube == InitCube /\ [][NextCube]_vars

\* ---------------------------------------------------------------- SpecRuns
\* The runs of the three steps, each started from its button.  Step 1 has no
\* Cancel button: nothing sets the flag of step1CancelRef.

\* step1GenerateBtn "click" with N, M and layout entered (validateN passes),
\* up to the tile loop of generateStep1Pattern: the fresh cancelRef, the
\* button disabled until the finally block, the dimension check, the canvas
\* and its 2D context (ctxOk: getContext gave one).
Step1Generate(N, M, layout, ctxOk) ==
  /\ mode = "lut"
  /\ g1pc \notin {"loop", "yield", "encode"}
  /\ N >= 2 /\ N <= 65
  /\ g1cancel' = FALSE
  /\ pattern' = Geom(N, M, layout)
  /\ LET d == computeDims(N, M, layout) IN
     IF d.width > canvasMaxDim \/ d.height > canvasMaxDim
     THEN /\ g1pc' = "failed"
          /\ g1err' = [kind |-> "dimension", width |-> d.width, height |-> d.height,
                       mMax |-> Max(1, canvasMaxDim \div (N * N))]
          /\ canvas' = NoImage
          /\ paints' = <<>>
     ELSE /\ canvas' = BlankImage(d.width, d.height)
          /\ paints' = [p \in 0 .. (d.width * d.height - 1) |-> 0]
          /\ IF ctxOk
             THEN g1pc' = "loop" /\ g1err' = NoError
             ELSE g1pc' = "failed" /\ g1err' = Failure("Could not create 2D context.")
  /\ g1t' = 0
  /\ g1progress' = <<0, 1>>
  /\ UNCHANGED <<mode, step3Vars, filterVars, imgW, imgH, detected, canvasMaxDim,
                 tileVars, quantVars, cubeVars>>

NextStep1 ==
  \/ \E in \in CallInputs, ctxOk \in BOOLEAN : Step1Generate(in[1], in[2], in[3], ctxOk)
  \/ GenTile
  \/ GenResume
  \/ GenFinish
  \/ \E blobOk \in BOOLEAN : GenEncode(blobOk)

InitRuns == InitLut \/ InitFilter \/ InitStep3

NextRuns == NextStep1 \/ NextFilter \/ NextStep3

SpecRuns == InitRuns /\ [][NextRuns]_vars

\* A run of Step 2 / Step 3 is suspended in "await nextFrame()" of its loop:
\* the enabling condition of FilterResume(i) / Step3Resume(i).
Suspended2(i) == mode = "filter" /\ step2Runs[i].pc = "yield"
Suspended3(i) == mode = "step3" /\ step3Gens[i].pc = "yield"

\* The host calls back every pending requestAnimationFrame and canvas.toBlob
\* callback: a suspended run of Step 2 or Step 3 is resumed in the end.
\* For the two loop resumptions weak fairness is written out,
\* WF_v(A) == []<>~(ENABLED <<A>>_v) \/ []<><<A>>_v, with the enabling
\* condition in place of ENABLED and the run's own record as v (a resumption
\* always changes it).
FairRuns ==
  /\ \A i \in RunIds :
       /\ []<>(~Suspended2(i)) \/ []<><<FilterResume(i)>>_(step2Runs[i])
       /\ WF_vars(\E ctxOk \in BOOLEAN : Step2Encode(i, ctxOk))
       /\ WF_vars(\E blobOk \in BOOLEAN : Step2Blob(i, blobOk))
  /\ \A i \in GenIds : []<>(~Suspended3(i)) \/ []<><<Step3Resume(i)>>_(step3Gens[i])

SpecRunsFair == SpecRuns /\ FairRuns

\* ------------------------------------------------------ claims C5 .. C7
\* The tile indices of a lattice of size N.
TileIndices(N) == 0 .. (N * N * N - 1)

\* C5: for every N >= 1, tileIndexToRGB(t, N) on t in [0, N^3) is a bijection
\* onto [0, N)^3: r, g, b lie in [0, N), no two indices give the same
\* (r, g, b), every (r, g, b) is produced, and t = r + g*N + b*N^2.
C5_TileIndexBijection ==
  (mode = "tile" /\ tN >= 1) =>
    LET image == {tileIndexToRGB(t, tN) : t \in TileIndices(tN)} IN
    /\ \A t \in TileIndices(tN) :
         LET c == tileIndexToRGB(t, tN) IN
         /\ c.r \in 0 .. tN - 1
         /\ c.g \in 0 .. tN - 1
         /\ c.b \in 0 .. tN - 1
         /\ t = c.r + c.g * tN + c.b * tN * tN
    /\ Cardinality(image) = tN * tN * tN
    /\ image = [r : 0 .. tN - 1, g : 0 .. tN - 1, b : 0 .. tN - 1]
    /\ tile.t >= 0 => tile.t = tile.r + tile.g * tN + tile.b * tN * tN

C5_Witness ==
  /\ mode = "tile"
  /\ tN = 3
  /\ tIdx = 27
  /\ tile.t = 26
  /\ tile.r = 2 /\ tile.g = 2 /\ tile.b = 2

\* C6: for every N >= 2, v(0, N) = 0, v(N-1, N) = 255, every v(i, N) with i in
\* [0, N) lies in [0, 255] and v(i, N) <= v(i+1, N) for 0 <= i < N-1; for
\* N <= 1 it returns 0.
C6_Quantization ==
  (mode = "quant" /\ qi >= 1) =>
    LET i == qi - 1 IN
    IF qN >= 2
    THEN /\ qv \in 0 .. 255
         /\ i = 0 => qv = 0
         /\ i = qN - 1 => qv = 255
         /\ i < qN - 1 => qv <= v(i + 1, qN)
    ELSE qv = 0

C6_Witness ==
  /\ mode = "quant"
  /\ qN = 3
  /\ qi = 2
  /\ qv = 128

\* C7: for every N >= 2 and each layout, tileCoords maps t in [0, N^3)
\* one-to-one onto the whole grid [0, tilesW) x [0, tilesH) of computeDims.
C7_TileCoordsBijection ==
  (mode = "tile" /\ tN >= 2) =>
    LET d == computeDims(tN, 1, tLayout)
        places == {tileCoords(t, tN, tLayout) : t \in TileIndices(tN)}
    IN  /\ Cardinality(places) = tN * tN * tN
        /\ places = [xTile : 0 .. d.tilesW - 1, yTile : 0 .. d.tilesH - 1]
        /\ tile.t >= 0 =>
             /\ tile.xTile \in 0 .. d.tilesW - 1
             /\ tile.yTile \in 0 .. d.tilesH - 1

C7_Witness ==
  /\ mode = "tile"
  /\ tN = 4
  /\ tLayout = "wide"
  /\ tile.t = 63
  /\ tile.xTile = 15
  /\ tile.yTile = 3

\* ------------------------------------------------------ claims C8 .. C10
\* The tile index whose tile sits at tile position (xTile, yTile):
\* t = r + g*N + b*N^2 with (r, g, b) read off the position.
TileAt(xTile, yTile, N, layout) ==
  IF layout = "wide"
  THEN (xTile % N) + (xTile \div N) * N + yTile * N * N
  ELSE xTile + (yTile % N) * N + (yTile \div N) * N * N

\* C8: when generateStep1Pattern(N, M, layout) completes, the image is
\* tilesW*M x tilesH*M with (tilesW, tilesH) = (N^2, N) for wide, (N, N^2) for
\* tall, every pixel has been painted by exactly one tile, and the pixel at
\* (x, y) holds (v(r,N), v(g,N), v(b,N)) of the unique tile index t with
\* tileCoords(t) = (floor(x/M), floor(y/M)).  The image is examined when the
\* call completes, before Step 3 takes it (nothing writes the canvas later).
C8_PatternImage ==
  (mode = "lut" /\ g1pc = "done" /\ img3 = NoImage) =>
    LET N == pattern.N
        M == pattern.M
        tilesW == IF pattern.layout = "wide" THEN N * N ELSE N
        tilesH == IF pattern.layout = "wide" THEN N ELSE N * N
    IN  /\ canvas.width = tilesW * M
        /\ canvas.height = tilesH * M
        /\ DOMAIN canvas.data = 0 .. (tilesW * M * tilesH * M - 1)
        /\ Cardinality({tileCoords(t, N, pattern.layout) : t \in TileIndices(N)}) = N * N * N
        /\ \A p \in DOMAIN canvas.data :
             LET x == p % canvas.width
                 y == p \div canvas.width
                 t == TileAt(x \div M, y \div M, N, pattern.layout)
                 c == tileIndexToRGB(t, N)
             IN  /\ t \in TileIndices(N)
                 /\ tileCoords(t, N, pattern.layout) = [xTile |-> x \div M, yTile |-> y \div M]
                 /\ paints[p] = 1
                 /\ canvas.data[p] = <<v(c.r, N), v(c.g, N), v(c.b, N), 255>>

C8_Witness ==
  /\ mode = "lut"
  /\ g1pc = "done"
  /\ img3 = NoImage
  /\ pattern = Geom(4, 2, "wide")
  /\ canvas.width = 32
  /\ canvas.height = 8
  /\ canvas.data[0] = <<0, 0, 0, 255>>
  /\ tileCoords(63, 4, "wide") = [xTile |-> 15, yTile |-> 3]
  /\ canvas.data[6 * 32 + 30] = <<255, 255, 255, 255>>

\* |a - b|
AbsDiff(a, b) == IF a >= b THEN a - b ELSE b - a

\* C9: with no external transform, sampling the generated pattern with
\* generateCubeLut and the same geometry gives, for every lattice cell
\* (r,g,b), channel values within 1/255 of (v(r,N), v(g,N), v(b,N)) / 255.
\* (Printed values are in millionths: |x/10^6 - v/255| <= 1/255.)
C9_IdentityRoundTrip ==
  (mode = "lut" /\ g3pc = "done" /\ img3xf = "identity" /\ detected = pattern) =>
    /\ Len(lines) = 5 + pattern.N * pattern.N * pattern.N
    /\ \A t \in TileIndices(pattern.N) :
         LET c == tileIndexToRGB(t, pattern.N)
             line == lines[5 + t + 1]
         IN  /\ AbsDiff(255 * line[1], 1000000 * v(c.r, pattern.N)) <= 1000000
             /\ AbsDiff(255 * line[2], 1000000 * v(c.g, pattern.N)) <= 1000000
             /\ AbsDiff(255 * line[3], 1000000 * v(c.b, pattern.N)) <= 1000000

C9_Witness ==
  /\ mode = "lut"
  /\ g3pc = "done"
  /\ img3xf = "identity"
  /\ detected = pattern
  /\ pattern.M = 14
  /\ sampleCount(pattern.M) = 8
  /\ lines[5 + 2] = <<1000000, 0, 0>>

\* C10: a successful generateCubeLut emits exactly N^3 data lines after the 5
\* header lines; the k-th data line (k from 0) is the colour sampled from the
\* tile at tileCoords(k, N, layout) for the detected layout, i.e. the cell
\* (r,g,b) = tileIndexToRGB(k, N) (R fastest, B slowest), and every emitted
\* value lies in [0, 1].
C10_CubeOrder ==
  (mode = "lut" /\ g3pc = "done") =>
    LET N == detected.N IN
    /\ Len(lines) = 5 + N * N * N
    /\ SubSeq(lines, 1, 5) = cubeHeader(detected)
    /\ \A k \in TileIndices(N) :
         LET xy == tileCoords(k, N, detected.layout)
             cell == tileIndexToRGB(k, N)
             c == sampleTileColor(img3.data, img3.width, img3.height,
                                  xy.xTile, xy.yTile, detected.M)
             line == lines[5 + k + 1]
         IN  /\ line = << toFixed6(clampByte(c.sumR, c.count)),
                          toFixed6(clampByte(c.sumG, c.count)),
                          toFixed6(clampByte(c.sumB, c.count)) >>
             /\ cubeTileCoords(cell.r, cell.g, cell.b, N, detected.layout) = xy
             /\ \A ch \in 1 .. 3 : line[ch] >= 0 /\ line[ch] <= 1000000

C10_Witness ==
  /\ mode = "lut"
  /\ g3pc = "done"
  /\ img3xf = "shade"
  /\ detected = Geom(3, 2, "tall")
  /\ Len(lines) = 5 + 27
  /\ lines[6] # lines[7]

\* ------------------------------------------------------ claims C1 .. C4
\* The triples (N, M, layout), N in 2 .. maxN and M >= 1, whose computeDims is
\* (w, h).  N * M is the smaller side of the image, so neither N nor M
\* exceeds Min(w, h).
Reconstructions(w, h, maxN) ==
  {g \in (2 .. Min(maxN, Min(w, h))) \X (1 .. Min(w, h)) \X Layouts :
     /\ computeDims(g[1], g[2], g[3]).width = w
     /\ computeDims(g[1], g[2], g[3]).height = h}

\* C1 as stated: for every N >= 2, M >= 1 and layout, detectGeometry of the
\* dimensions of computeDims(N, M, layout) returns exactly {N, M, layout}.
C1_AnyN_RoundTrip ==
  (pattern.kind = "geom" /\ detected.kind # "none") => detected = pattern

\* C1 amended: for every 2 <= N <= 256, M >= 1 and layout, detectGeometry of
\* the dimensions of computeDims(N, M, layout) returns exactly {N, M, layout}.
C1_DetectRoundTrip ==
  (pattern.kind = "geom" /\ pattern.N <= DetectMaxN /\ detected.kind # "none")
    => detected = pattern

C1_Witness ==
  /\ pattern.kind = "geom"
  /\ pattern.N = DetectMaxN
  /\ pattern.layout = "wide"
  /\ detected = pattern

\* C2: whenever detectGeometry returns a geometry, 2 <= N <= 256, M >= 1 and
\* computeDims(N, M, layout) reproduces exactly the given width and height.
C2_DetectedIsExact ==
  detected.kind = "geom" =>
    /\ detected.N >= 2
    /\ detected.N <= DetectMaxN
    /\ detected.M >= 1
    /\ detected.layout \in Layouts
    /\ computeDims(detected.N, detected.M, detected.layout).width = imgW
    /\ computeDims(detected.N, detected.M, detected.layout).height = imgH

C2_Witness ==
  /\ pattern.kind = "none"
  /\ detected.kind = "geom"
  /\ detected.layout = "tall"
  /\ detected.M > 1

\* C3: detectGeometry returns the error exactly when no (N, M, layout) with
\* 2 <= N <= 256, M >= 1 has computeDims(N, M, layout) = (width, height).
C3_ErrorIffNoTriple ==
  detected.kind # "none" =>
    ((detected = GeomError) <=> (Reconstructions(imgW, imgH, DetectMaxN) = {}))

C3_Witness ==
  /\ detected = GeomError
  /\ imgW = imgH
  /\ imgW > 1

\* detectGeometry with the two blocks tried in the other order.
TallThenWide(width, height) ==
  IF tallHypothesis(width, height).kind = "geom"
  THEN tallHypothesis(width, height)
  ELSE IF wideHypothesis(width, height).kind = "geom"
       THEN wideHypothesis(width, height)
       ELSE GeomError

\* C4: at most one (N, M, layout) with N >= 2, M >= 1 has computeDims equal to
\* (width, height); the wide and tall blocks never both validate, and trying
\* tall before wide gives the same result.
C4_UniqueGeometry ==
  detected.kind # "none" =>
    /\ Cardinality(Reconstructions(imgW, imgH, Max(imgW, imgH))) <= 1
    /\ ~(wideHypothesis(imgW, imgH).kind = "geom" /\ tallHypothesis(imgW, imgH).kind = "geom")
    /\ detected = TallThenWide(imgW, imgH)

C4_Witness ==
  /\ imgW = 16
  /\ imgH = 4
  /\ detected = Geom(4, 1, "wide")
  /\ tallHypothesis(imgW, imgH) = GeomError

\* ------------------------------------------------------ claims C11 .. C15
\* The runs of applyStep2Filter that were started (their ImageData is cell
\* run.img of the heap until the slot is used again).
Started == {i \in RunIds : step2Runs[i].pc # "idle"}

\* The scripts that assign none of R, G, B.
NoAssignScripts == {Script_empty, Script_return}

\* C11: when the script assigns none of R, G, B (the empty script, or one that
\* returns before any assignment), a run of applyStep2Filter that returned its
\* image left every pixel's R, G, B and A byte as it was before the run.
C11_PassThrough ==
  \A i \in Started :
    (step2Runs[i].returned /\ step2Runs[i].script \in NoAssignScripts)
      => compress(heap[step2Runs[i].img].data) = compress(step2Runs[i].before)

\* A run of the early-return script on small.png returned; some pixel of the
\* image has different red and blue bytes.
C11_Witness ==
  \E i \in Started :
    /\ step2Runs[i].returned
    /\ step2Runs[i].script = Script_return
    /\ runsLength(step2Runs[i].before) = SmallW * SmallH
    /\ \E p \in 0 .. SmallW * SmallH - 1 :
         pixelAt(step2Runs[i].before, p)[1] # pixelAt(step2Runs[i].before, p)[3]

\* The pixels of run i a property is examined on: every pixel of an image as
\* small as small.png, the first and last pixel of every run of equal pixels
\* (before and now) of a larger one.
Edges(runs) ==
  UNION {{runStart(runs, k), runStart(runs, k) + runs[k].len - 1} : k \in 1 .. Len(runs)}
Probes(i) ==
  IF runsLength(step2Runs[i].before) <= SmallW * SmallH
  THEN 0 .. runsLength(step2Runs[i].before) - 1
  ELSE Edges(step2Runs[i].before) \cup Edges(heap[step2Runs[i].img].data)

\* What the script of run i left in R, G, B for pixel p, and the packed
\* result of the compiled filter for it.
ScriptAt(i, p) ==
  runScript(step2Runs[i].script,
            pixelAt(step2Runs[i].before, p)[1], pixelAt(step2Runs[i].before, p)[2],
            pixelAt(step2Runs[i].before, p)[3],
            p % heap[step2Runs[i].img].width, p \div heap[step2Runs[i].img].width,
            heap[step2Runs[i].img].width, heap[step2Runs[i].img].height)
PackedAt(i, p) ==
  filterFn(step2Runs[i].script,
           pixelAt(step2Runs[i].before, p)[1], pixelAt(step2Runs[i].before, p)[2],
           pixelAt(step2Runs[i].before, p)[3],
           p % heap[step2Runs[i].img].width, p \div heap[step2Runs[i].img].width,
           heap[step2Runs[i].img].width, heap[step2Runs[i].img].height).packed

Channel(res, c) == IF c = 1 THEN res.R ELSE IF c = 2 THEN res.G ELSE res.B
Unpacked(packed, c) ==
  IF c = 1 THEN (packed \div 65536) % 256
  ELSE IF c = 2 THEN (packed \div 256) % 256 ELSE packed % 256

\* round(x) for a finite x = num / den: the integer k with k - 1/2 <= x < k + 1/2.
Nearest(x) ==
  CHOOSE k \in (x.num \div x.den - 1) .. (x.num \div x.den + 1) :
    2 * k * x.den - x.den <= 2 * x.num /\ 2 * x.num < 2 * k * x.den + x.den
ClampedRound(x) ==
  IF Nearest(x) > 255 THEN 255 ELSE IF Nearest(x) < 0 THEN 0 ELSE Nearest(x)

\* C12: for every pixel a run has written and every channel in which the
\* script left a finite value x, the byte now in the buffer is
\* min(255, max(0, round(x))), and so is the byte unpacked from the packed
\* result, each channel on its own; 999 gives 255 and -50 gives 0.
C12_ClampedBytes ==
  \A i \in Started : \A p \in Probes(i) :
    p < step2Runs[i].processed =>
      \A c \in 1 .. 3 :
        isFinite(Channel(ScriptAt(i, p), c)) =>
          /\ pixelAt(heap[step2Runs[i].img].data, p)[c] = ClampedRound(Channel(ScriptAt(i, p), c))
          /\ Unpacked(PackedAt(i, p), c) = ClampedRound(Channel(ScriptAt(i, p), c))

\* A run of "R = 999; G = -50; B = 127.5;" returned: 255, 0 and 128 were written.
C12_Witness ==
  \E i \in Started :
    /\ step2Runs[i].returned
    /\ step2Runs[i].script = Script_clamp
    /\ Channel(ScriptAt(i, 0), 1) = Num(999, 1)
    /\ Channel(ScriptAt(i, 0), 2) = Num(-50, 1)
    /\ pixelAt(heap[step2Runs[i].img].data, 0)[1] = 255
    /\ pixelAt(heap[step2Runs[i].img].data, 0)[2] = 0
    /\ pixelAt(heap[step2Runs[i].img].data, 0)[3] = 128

\* C13: for every pixel a run has written, a channel in which the script left
\* NaN, +Infinity or -Infinity holds the byte that channel had before the
\* filter ran on the pixel, and the finite channels of the same pixel hold the
\* script's (rounded, clamped) results.
C13_NonFiniteFallback ==
  \A i \in Started : \A p \in Probes(i) :
    (/\ p < step2Runs[i].processed
     /\ \E c \in 1 .. 3 : ~isFinite(Channel(ScriptAt(i, p), c)))
      => \A c \in 1 .. 3 :
           pixelAt(heap[step2Runs[i].img].data, p)[c] =
             IF isFinite(Channel(ScriptAt(i, p), c))
             THEN ClampedRound(Channel(ScriptAt(i, p), c))
             ELSE pixelAt(step2Runs[i].before, p)[c]

\* Runs that left +Infinity in G and -Infinity in B of a pixel whose G and B
\* bytes are neither 0 nor 255 returned; its R byte is the script's result.
C13_Witness ==
  \E i \in Started : \E p \in Probes(i) :
    /\ step2Runs[i].returned
    /\ Channel(ScriptAt(i, p), 2) = PosInfinity
    /\ Channel(ScriptAt(i, p), 3) = NegInfinity
    /\ pixelAt(step2Runs[i].before, p)[2] \notin {0, 255}
    /\ pixelAt(step2Runs[i].before, p)[3] \notin {0, 255}
    /\ pixelAt(heap[step2Runs[i].img].data, p)[2] = pixelAt(step2Runs[i].before, p)[2]
    /\ pixelAt(heap[step2Runs[i].img].data, p)[3] = pixelAt(step2Runs[i].before, p)[3]
    /\ pixelAt(heap[step2Runs[i].img].data, p)[1] = ClampedRound(Channel(ScriptAt(i, p), 1))

\* C14: whatever the script and however far a run got or however it ended
\* (returned, Cancelled, filter error, still suspended), the buffer has the
\* pixels it had, every alpha byte is the one before the run, and the pixels
\* the loop has not reached hold all four bytes they had.
C14_AlphaUntouched ==
  \A i \in Started :
    /\ runsLength(heap[step2Runs[i].img].data) = runsLength(step2Runs[i].before)
    /\ \A p \in Probes(i) :
         /\ pixelAt(heap[step2Runs[i].img].data, p)[4] = pixelAt(step2Runs[i].before, p)[4]
         /\ p >= step2Runs[i].processed
              => pixelAt(heap[step2Runs[i].img].data, p) = pixelAt(step2Runs[i].before, p)

\* A run ended with Cancelled after it had changed the R, G, B bytes of a
\* pixel whose alpha byte is not 255, with pixels left that it did not reach.
C14_Witness ==
  \E i \in Started : \E p \in Probes(i) :
    /\ step2Runs[i].pc = "failed"
    /\ step2Runs[i].err = Error2("Cancelled.")
    /\ p < step2Runs[i].processed
    /\ step2Runs[i].processed < runsLength(step2Runs[i].before)
    /\ pixelAt(step2Runs[i].before, p)[4] # 255
    /\ pixelAt(heap[step2Runs[i].img].data, p) # pixelAt(step2Runs[i].before, p)

\* The probed pixels of run i on which the compiled filter throws.
Throwing(i) == {p \in Probes(i) : ScriptAt(i, p).thrown}

\* The pixel index the filter error of run i names.
ErrorPixel(i) == step2Runs[i].err.y * heap[step2Runs[i].img].width + step2Runs[i].err.x

\* C15: a run never gets past a pixel on which the filter throws, and a run
\* that failed with a filter error names the first throwing pixel in row-major
\* order and its message, made no call after it, left that pixel and all later
\* ones unmodified, and returned no image; a run that returned met no
\* throwing pixel.
C15_FirstThrowAborts ==
  \A i \in Started :
    /\ \A q \in Throwing(i) : step2Runs[i].processed <= q
    /\ step2Runs[i].returned => Throwing(i) = {}
    /\ step2Runs[i].err.kind = "Filter error at" =>
         /\ step2Runs[i].pc = "failed"
         /\ ~step2Runs[i].returned
         /\ step2Runs[i].err.x < heap[step2Runs[i].img].width
         /\ ErrorPixel(i) \in Throwing(i)
         /\ \A q \in Throwing(i) : ErrorPixel(i) <= q
         /\ step2Runs[i].err.msg = ScriptAt(i, ErrorPixel(i)).msg
         /\ step2Runs[i].processed = ErrorPixel(i)
         /\ \A p \in Probes(i) :
              p >= ErrorPixel(i)
                => pixelAt(heap[step2Runs[i].img].data, p) = pixelAt(step2Runs[i].before, p)

\* A run failed on the first of two throwing pixels, after it had modified
\* an earlier pixel.
C15_Witness ==
  \E i \in Started :
    /\ step2Runs[i].err.kind = "Filter error at"
    /\ Cardinality(Throwing(i)) >= 2
    /\ ErrorPixel(i) > 0
    /\ step2Runs[i].err.msg = "too bright"
    /\ \E p \in Probes(i) :
         /\ p < ErrorPixel(i)
         /\ pixelAt(heap[step2Runs[i].img].data, p) # pixelAt(step2Runs[i].before, p)

\* ------------------------------------------------------ claims C16 .. C20
\* C17: a run of applyStep2Filter that is suspended at a yield with its
\* cancellation flag set can only go on by throwing Cancelled: its next step
\* returns no image, handles no further pixel and leaves its buffer as it is.
C17_CancelAtYield ==
  [][\A i \in RunIds :
       (/\ step2Runs[i].pc = "yield"
        /\ step2Runs[i].cancelled
        /\ step2Runs'[i] # step2Runs[i])
         => /\ step2Runs'[i].pc = "failed"
            /\ step2Runs'[i].err = Error2("Cancelled.")
            /\ ~step2Runs'[i].returned
            /\ step2Runs'[i].processed = step2Runs[i].processed
            /\ step2Runs'[i].reports = step2Runs[i].reports
            /\ step2Runs'[i].img = step2Runs[i].img
            /\ heap'[step2Runs[i].img] = heap[step2Runs[i].img]]_vars

\* A run resumed from its first yield with the flag set: it failed with
\* Cancelled after exactly chunkPixels pixels and one progress report.
C17_Witness ==
  \E i \in Started :
    /\ step2Runs[i].pc = "failed"
    /\ step2Runs[i].cancelled
    /\ step2Runs[i].err = Error2("Cancelled.")
    /\ step2Runs[i].processed = chunkPixels
    /\ Len(step2Runs[i].reports) = 1
    /\ ~step2Runs[i].returned

\* C20: in every state reached by file loads, Run clicks, Cancel clicks and
\* the yields of a running filter, the loaded image holds the decoded pixels of
\* its file (no run, whether suspended, returned, cancelled or failed, has
\* written to it), no run's buffer is the loaded image, and no two runs that
\* are in flight have the same buffer.
C20_PrivateCopies ==
  /\ step2Loaded # NotLoaded =>
       /\ heap[step2Loaded.imageData] = decodePng(step2Loaded.file)
       /\ \A i \in Started : step2Runs[i].img # step2Loaded.imageData
  /\ \A i \in Started : heap[step2Runs[i].img].used
  /\ \A i \in Started : \A j \in Started :
       (i # j /\ InFlight(step2Runs[i]) /\ InFlight(step2Runs[j]))
         => step2Runs[i].img # step2Runs[j].img

\* A run is suspended at a yield with its flag set and its copy partly
\* rewritten, while a file loaded since it started is the loaded image.
C20_Witness ==
  \E i \in Started :
    /\ step2Runs[i].pc = "yield"
    /\ step2Runs[i].cancelled
    /\ step2Loaded # NotLoaded
    /\ heap[step2Runs[i].img].data # step2Runs[i].before
    /\ heap[step2Loaded.imageData].data # step2Runs[i].before
    /\ heap[step2Loaded.imageData] = decodePng(step2Loaded.file)

\* C16: a call of generateStep1Pattern whose cancellation flag was set while
\* it was in flight (at a yield of the loop or at the last yield before the
\* PNG is encoded) never returns a PNG blob, and when it throws it throws
\* Cancelled (or, the encoder itself failing, the encoder's error).
C16_CancelAlwaysAborts ==
  (mode = "lut" /\ g1cancel)
    => /\ g1pc # "done"
       /\ g1pc = "failed"
            => g1err \in {Failure("Cancelled."), Failure("Failed to create PNG blob.")}

\* The requested dimensions exceed the capability value.
OverLimit(N, M, layout) ==
  \/ computeDims(N, M, layout).width > canvasMaxDim
  \/ computeDims(N, M, layout).height > canvasMaxDim

\* C19: generateStep1Pattern throws the dimension-limit error exactly when
\* the computed width or height exceeds the capability value, with no canvas,
\* no tile drawn, no progress reported and no yield; the M it reports is
\* floor(maxDim / N^2), which fits for the given N while M + 1 does not.
C19_DimensionLimit ==
  (mode = "lut" /\ g1pc # "idle") =>
    /\ g1err.kind = "dimension" <=> OverLimit(pattern.N, pattern.M, pattern.layout)
    /\ g1err.kind = "dimension" =>
         /\ g1pc = "failed"
         /\ canvas = NoImage /\ paints = <<>>
         /\ g1t = 0 /\ g1progress = <<0, 1>>
         /\ g1err.width = computeDims(pattern.N, pattern.M, pattern.layout).width
         /\ g1err.height = computeDims(pattern.N, pattern.M, pattern.layout).height
         /\ g1err.mMax = canvasMaxDim \div (pattern.N * pattern.N)
         /\ ~OverLimit(pattern.N, g1err.mMax, pattern.layout)
         /\ OverLimit(pattern.N, g1err.mMax + 1, pattern.layout)

\* A call of generateStep1Pattern that was started with its flag set has
\* reported no progress, reached no yield and drawn no tile.
GenNothingDone ==
  /\ g1pc \in {"loop", "failed"}
  /\ g1t = 0
  /\ g1progress = <<0, 1>>
  /\ \A p \in DOMAIN paints : paints[p] = 0
  /\ \A p \in DOMAIN canvas.data : canvas.data[p] = Transparent

\* A call of generateCubeLut (N >= 2) that was started with its flag set
\* throws Cancelled with no progress reported, no yield reached and no blob.
LutPresetCancelled ==
  (g3cancel /\ g3pc # "idle") =>
    /\ detected.N >= 2
    /\ g3pc \in {"loop", "failed"}
    /\ g3pc = "failed" => g3err = Failure("Cancelled.")
    /\ g3done = 0
    /\ g3progress = <<0, 1>>
    /\ lines = cubeHeader(detected)

\* A call of applyStep2Filter (height >= 1) that was started with its flag set
\* throws Cancelled with no progress reported, no pixel modified and no image.
FilterPresetCancelled ==
  \A i \in Started :
    (step2Runs[i].caller = "direct" /\ step2Runs[i].cancelled) =>
      /\ heap[step2Runs[i].img].height >= 1
      /\ step2Runs[i].pc = "failed"
      /\ step2Runs[i].err = Error2("Cancelled.")
      /\ ~step2Runs[i].returned
      /\ step2Runs[i].reports = <<>>
      /\ step2Runs[i].processed = 0
      /\ heap[step2Runs[i].img].data = step2Runs[i].before

\* C18 as stated: each of the three operations, started with its flag set,
\* throws Cancelled before any yield, progress report, drawn or modified pixel,
\* and returns nothing (a canvas that gives no 2D context aside).
C18_PresetAlwaysCancelled ==
  /\ (g1cancel /\ g1pc # "idle") =>
       /\ GenNothingDone
       /\ g1pc = "failed"
            => g1err \in {Failure("Cancelled."), Failure("Could not create 2D context.")}
  /\ LutPresetCancelled
  /\ FilterPresetCancelled

\* C18: generateCubeLut (N >= 2) and applyStep2Filter (height >= 1) started
\* with the flag set throw Cancelled before any yield, progress report or
\* modified pixel and return nothing; so does generateStep1Pattern when the
\* requested dimensions are within the capability value and the canvas gives
\* a 2D context, and otherwise it throws the dimension-limit error or the
\* context error, again before any yield, progress report or drawn tile.
C18_PresetCancelled ==
  /\ (g1cancel /\ g1pc # "idle") =>
       /\ GenNothingDone
       /\ g1pc = "failed" =>
            IF OverLimit(pattern.N, pattern.M, pattern.layout)
            THEN g1err.kind = "dimension" /\ canvas = NoImage
            ELSE g1err \in {Failure("Cancelled."), Failure("Could not create 2D context.")}
  /\ LutPresetCancelled
  /\ FilterPresetCancelled

\* All three operations were started with the flag set and threw Cancelled:
\* generateStep1Pattern on a blank canvas within the limit, generateCubeLut
\* with only its header lines, applyStep2Filter with its image untouched.
C18_Witness ==
  /\ g1cancel /\ g1pc = "failed" /\ g1err = Failure("Cancelled.")
  /\ canvas # NoImage /\ GenNothingDone
  /\ g3cancel /\ g3pc = "failed" /\ g3err = Failure("Cancelled.")
  /\ \E i \in Started :
       /\ step2Runs[i].caller = "direct"
       /\ step2Runs[i].cancelled
       /\ step2Runs[i].err = Error2("Cancelled.")

\* ------------------------------------------------------ claims C21 .. C30
\* (mean / 255).toFixed(6) in millionths, for the un-rounded mean sum / count.
\* Long division, one decimal digit a step, keeps the numbers small.
NextDigit(p, d) == [q |-> p.q * 10 + (p.r * 10) \div d, r |-> (p.r * 10) % d]
SixDigits(a, d) ==
  NextDigit(NextDigit(NextDigit(NextDigit(NextDigit(NextDigit(
    [q |-> a \div d, r |-> a % d], d), d), d), d), d), d)
RoundUp(p, d) == p.q + (IF 2 * p.r >= d THEN 1 ELSE 0)
MeanFixed6(sum, count) == RoundUp(SixDigits(sum, count * 255), count * 255)

\* C21: every data line of a completed generateCubeLut holds, per channel, the
\* un-rounded mean of the sampled pixels of the cell's tile divided by 255,
\* printed with 6 decimals (no rounding of the mean to a byte first).
C21_UnroundedMean ==
  (mode = "lut" /\ g3pc = "done") =>
    \A k \in TileIndices(detected.N) :
      LET xy == tileCoords(k, detected.N, detected.layout)
          c == sampleTileColor(img3.data, img3.width, img3.height,
                               xy.xTile, xy.yTile, detected.M)
      IN  lines[5 + k + 1] = << MeanFixed6(c.sumR, c.count),
                                MeanFixed6(c.sumG, c.count),
                                MeanFixed6(c.sumB, c.count) >>

\* C22: for the tile generateCubeLut is about to sample, margin is
\* max(1, floor(M * 0.2)), or max(0, floor(M / 4)) when twice that reaches M;
\* region = M - 2 * margin >= 1 and s = min(8, region) >= 1, so s * s > 0
\* pixels are sampled, and each of them lies in
\* [tile * M + margin, tile * M + M - margin) on both axes.
C22_SamplesInsideInset ==
  (mode = "lut" /\ g3pc = "loop" /\ g3b < detected.N) =>
    LET M == detected.M
        margin == sampleMargin(M)
        region == M - 2 * margin
        s == sampleCount(M)
        xy == cubeTileCoords(g3r, g3g, g3b, detected.N, detected.layout)
        pts == samplePoints(img3.width, img3.height, xy.xTile, xy.yTile, M)
    IN  /\ M >= 1
        /\ margin = IF 2 * Max(1, M \div 5) >= M THEN Max(0, M \div 4) ELSE Max(1, M \div 5)
        /\ region >= 1
        /\ s = Min(8, region)
        /\ s >= 1
        /\ Len(pts) = s * s
        /\ (xy.xTile + 1) * M <= img3.width
        /\ (xy.yTile + 1) * M <= img3.height
        /\ \A k \in 1 .. Len(pts) :
             /\ xy.xTile * M + margin <= pts[k] % img3.width
             /\ pts[k] % img3.width < xy.xTile * M + M - margin
             /\ xy.yTile * M + margin <= pts[k] \div img3.width
             /\ pts[k] \div img3.width < xy.yTile * M + M - margin

\* generateCubeLut is about to sample a tile away from the origin of an image
\* whose tile size takes the reduced margin.
C22_Witness ==
  /\ mode = "lut"
  /\ g3pc = "loop"
  /\ g3b < detected.N
  /\ g3r > 0 /\ g3g > 0
  /\ 2 * Max(1, detected.M \div 5) >= detected.M
  /\ sampleMargin(detected.M) = 0
  /\ sampleCount(detected.M) = 2

\* The number of tiles generateStep1Pattern has filled: tiles 0 .. g1t - 1 at
\* the head of the loop, tiles 0 .. g1t while suspended after filling tile g1t.
TilesFilled == IF g1pc = "yield" THEN g1t + 1 ELSE g1t

\* C23 as stated: the tile loop of generateStep1Pattern is suspended only
\* when the number of tiles filled is a positive multiple of 5000, and has
\* reported no progress while fewer than 5000 tiles are filled.
C23_YieldAtMultiples ==
  (mode = "lut" /\ g1pc \in {"loop", "yield"}) =>
    /\ g1pc = "yield" => TilesFilled > 0 /\ TilesFilled % yieldEvery = 0
    /\ TilesFilled < yieldEvery => g1progress = <<0, 1>>

\* C23: the tile loop of generateStep1Pattern reports progress t / N^3 and
\* yields exactly once after filling each tile t that is a multiple of 5000
\* (t = 0, 5000, ...), that is when the number of tiles filled is 1 more than
\* a multiple of 5000, and at no other point: while suspended t is such a
\* multiple and is the progress reported last, and at the head of the loop
\* the progress reported last is that of the latest such tile filled.
C23_YieldAfterEveryBlockStart ==
  (mode = "lut" /\ g1pc \in {"loop", "yield"}) =>
    /\ g1pc = "yield" =>
         /\ g1t % yieldEvery = 0
         /\ g1progress = <<g1t, pattern.N * pattern.N * pattern.N>>
    /\ (g1pc = "loop" /\ g1t = 0) => g1progress = <<0, 1>>
    /\ (g1pc = "loop" /\ g1t > 0) =>
         g1progress = <<yieldEvery * ((g1t - 1) \div yieldEvery),
                        pattern.N * pattern.N * pattern.N>>

\* The loop of a lattice with more than 5000 tiles is suspended after filling
\* tile 0, its first yield (the second comes after tile 5000).
C23_Witness ==
  /\ mode = "lut"
  /\ g1pc = "yield"
  /\ g1t = 0
  /\ TilesFilled = 1
  /\ pattern.N * pattern.N * pattern.N > yieldEvery
  /\ g1progress = <<0, pattern.N * pattern.N * pattern.N>>

\* The pixels of run i: the ones the loop has handled hold the filter's
\* result for the pixel the run was given (written once), in row-major order
\* with no gap, and the others are as given.
RowMajorPrefix(i) ==
  /\ step2Runs[i].processed <= runsLength(step2Runs[i].before)
  /\ step2Runs[i].next = step2Runs[i].processed
  /\ \A p \in Probes(i) :
       IF p < step2Runs[i].processed
       THEN pixelAt(heap[step2Runs[i].img].data, p)
              = writePixel(pixelAt(step2Runs[i].before, p), PackedAt(i, p))
       ELSE pixelAt(heap[step2Runs[i].img].data, p) = pixelAt(step2Runs[i].before, p)

\* One report processed / total per positive multiple of chunkPixels reached.
YieldReports(i) ==
  [k \in 1 .. step2Runs[i].processed \div chunkPixels |->
     <<k * chunkPixels, runsLength(step2Runs[i].before)>>]

\* The reports of run i that report the progress 1.
Ones(i) ==
  {k \in 1 .. Len(step2Runs[i].reports) :
     step2Runs[i].reports[k][1] = step2Runs[i].reports[k][2]}

\* What C24 and its amendment share: row-major order, each pixel once, a
\* suspension only at a positive multiple of chunkPixels pixels processed,
\* one report per such multiple and the report of 1 last on return.
Cadence(i) ==
  /\ RowMajorPrefix(i)
  /\ step2Runs[i].pc = "yield" =>
       step2Runs[i].processed > 0 /\ step2Runs[i].processed % chunkPixels = 0
  /\ step2Runs[i].reports
       = YieldReports(i) \o (IF step2Runs[i].returned THEN << <<1, 1>> >> ELSE <<>>)
  /\ step2Runs[i].returned =>
       /\ step2Runs[i].processed = runsLength(step2Runs[i].before)
       /\ Len(step2Runs[i].reports) \in Ones(i)

\* C24 as stated: the cadence, and a run that returned has reported the
\* progress 1 exactly once.
C24_OneReportedOnce ==
  \A i \in Started :
    /\ Cadence(i)
    /\ step2Runs[i].returned => Cardinality(Ones(i)) = 1

\* C24: applyStep2Filter handles the pixels in row-major order, each once,
\* suspends only between pixels, reports processed / total and yields exactly
\* when processed is a positive multiple of 150,000, and on return its last
\* report is 1; that is its only report of 1 unless the pixel count is a
\* multiple of 150,000, when the report of the last yield is 1 as well.
C24_RowMajorCadence ==
  [](\A i \in Started :
       /\ Cadence(i)
       /\ step2Runs[i].returned =>
            Ones(i) = IF runsLength(step2Runs[i].before) % chunkPixels = 0
                      THEN {Len(step2Runs[i].reports) - 1, Len(step2Runs[i].reports)}
                      ELSE {Len(step2Runs[i].reports)})

\* A run over exactly chunkPixels pixels returned after one suspension,
\* taken after its last pixel.
C24_Witness ==
  \E i \in Started :
    /\ mode = "filter"
    /\ step2Runs[i].returned
    /\ runsLength(step2Runs[i].before) = chunkPixels
    /\ step2Runs[i].reports = << <<chunkPixels, chunkPixels>>, <<1, 1>> >>
    /\ heap[step2Runs[i].img].data # step2Runs[i].before

\* The generations that have been started.
Started3 == {i \in GenIds : step3Gens[i].pc # "idle"}

\* C25: generateCubeLut is suspended only when the number of cells sampled is
\* a positive multiple of 5000, having reported done / total once per such
\* multiple, and a call whose flag is set (before the call or during any of
\* its yields, the one after the last cell included) does not return a blob:
\* it stays suspended until resumed and then fails with Cancelled.
C25_CancelAtAnyYield ==
  \A i \in Started3 :
    /\ runsLength(step3Gens[i].lines) = step3Gens[i].done
    /\ step3Gens[i].pc = "yield" =>
         step3Gens[i].done > 0 /\ step3Gens[i].done % yieldEvery = 0
    /\ step3Gens[i].reports
         = [k \in 1 .. step3Gens[i].done \div yieldEvery |->
              <<k * yieldEvery, step3Gens[i].geom.N * step3Gens[i].geom.N * step3Gens[i].geom.N>>]
           \o (IF step3Gens[i].returned THEN << <<1, 1>> >> ELSE <<>>)
    /\ step3Gens[i].cancelled =>
         /\ ~step3Gens[i].returned
         /\ step3Gens[i].pc \in {"yield", "failed"}
         /\ step3Gens[i].pc = "failed" => step3Gens[i].err = Error2("Cancelled.")

\* C26: a click on Run with a file loaded and a script that does not compile
\* ("R = ;") sets the status to the script compile error and nothing else:
\* applyStep2Filter is not started (no run, no progress report, no yield), no
\* buffer is modified, and the Run button, the Cancel button and the progress
\* bar are left as they were, the Run button enabled and the bar hidden.
C26_CompileErrorFirst ==
  [][(mode = "filter" /\ step2Loaded # NotLoaded /\ Step2Run(Script_syntax))
       => /\ step2Status' = "Script compile error"
          /\ UNCHANGED <<heap, step2Runs, step2CancelRef, step2RunBtnDisabled,
                         step2CancelBtnDisabled, step2ProgressHidden>>
          /\ ~step2RunBtnDisabled'
          /\ step2ProgressHidden'
          /\ \A i \in RunIds : ~InFlight(step2Runs'[i])]_vars

\* The compile error is the status after an earlier run has filtered the
\* loaded image, which is as it was decoded.
C26_Witness ==
  /\ mode = "filter"
  /\ step2Status = "Script compile error"
  /\ step2Loaded # NotLoaded
  /\ heap[step2Loaded.imageData] = decodePng(step2Loaded.file)
  /\ \E i \in Started : step2Runs[i].pc = "done"
  /\ ~step2RunBtnDisabled /\ step2CancelBtnDisabled /\ step2ProgressHidden

\* The generations of the Generate handler that are in flight.
Flying3 == {i \in GenIds : InFlight3(step3Gens[i])}

\* C27: at most one generation started from the Generate button is in
\* flight, and step3CancelRef, whose flag a Cancel click sets, is the
\* cancelRef that generation polls.
C27_OneGenerationInFlight ==
  mode = "step3" =>
    /\ Cardinality(Flying3) <= 1
    /\ \A i \in Flying3 : step3CancelRef = i

\* A run of Step 2 / Step 3 starts in slot i: the slot does not hold a
\* suspended run and its run changes.
Starts2(i) == ~InFlight(step2Runs[i]) /\ step2Runs'[i] # step2Runs[i]
Starts3(i) == ~InFlight3(step3Gens[i]) /\ step3Gens'[i] # step3Gens[i]

\* C28: a run of Step 1, 2 or 3 starts with a cancelRef of its own whose flag
\* is false, whatever the flag set by earlier Cancel clicks: the step that
\* starts it does not end in Cancelled, and a run fails with Cancelled only
\* when its own flag was set while it was suspended.
C28_FreshFlag ==
  [][/\ g1pc' # g1pc /\ g1pc \notin {"loop", "yield", "encode"}
          => ~g1cancel' /\ g1err' # Failure("Cancelled.")
     /\ mode = "lut" => g1err' # Failure("Cancelled.")
     /\ \A i \in RunIds :
          /\ Starts2(i) => /\ step2CancelRef' = i
                           /\ step2Runs'[i].err # Error2("Cancelled.")
                           /\ ~step2Runs'[i].cancelled
          /\ (step2Runs'[i].cancelled /\ ~step2Runs[i].cancelled) => InFlight(step2Runs[i])
          /\ (step2Runs'[i].err = Error2("Cancelled.") /\ step2Runs[i].err # Error2("Cancelled."))
               => InFlight(step2Runs[i]) /\ step2Runs[i].cancelled
     /\ \A i \in GenIds :
          /\ Starts3(i) => /\ step3CancelRef' = i
                           /\ step3Gens'[i].err # Error2("Cancelled.")
                           /\ ~step3Gens'[i].cancelled
          /\ (step3Gens'[i].cancelled /\ ~step3Gens[i].cancelled) => InFlight3(step3Gens[i])
          /\ (step3Gens'[i].err = Error2("Cancelled.") /\ step3Gens[i].err # Error2("Cancelled."))
               => InFlight3(step3Gens[i]) /\ step3Gens[i].cancelled]_vars

\* A run of Step 2 ended with its download although Cancel had been clicked
\* before it was started.
C28_Witness ==
  /\ mode = "filter"
  /\ step2Cancelled0
  /\ \E i \in Started :
       /\ step2Runs[i].pc = "done"
       /\ ~step2Runs[i].cancelled
       /\ step2CancelRef = i

\* C29: a generation of the Generate handler whose generateCubeLut returned
\* the blob ends with the download named after the file whose image it
\* sampled and after the N of the geometry it sampled with, and does not fail
\* on step3Loaded being null, whatever was loaded in the meantime.
C29_NamedAfterSampled ==
  [][mode = "step3" =>
       \A i \in GenIds :
         (step3Gens'[i] # step3Gens[i] /\ step3Gens'[i].returned)
           => /\ step3Gens'[i].pc = "done"
              /\ step3Gens'[i].err # Error2("TypeError")
              /\ step3Download'.file \in Files3
              /\ decodePng3(step3Download'.file) = step3Gens'[i].img
              /\ step3Download'.N = step3Gens'[i].geom.N]_vars

\* A run of Step 2 / Step 3 ends in slot i: its handler returns in this step.
Ends2(i) == step2Runs'[i] # step2Runs[i] /\ step2Runs'[i].pc \in {"done", "failed"}
Ends3(i) == step3Gens'[i] # step3Gens[i] /\ step3Gens'[i].pc \in {"done", "failed"}

\* C30: every run of Step 2 or Step 3 in flight ends (a slot is again and
\* again not in flight: InFlight ~> ~InFlight), and the step in which a
\* run ends (with its download, with Cancelled, with a filter error or with
\* an encoding failure) leaves the Run / Generate button enabled, the Cancel
\* button disabled, the progress bar hidden and the outcome ("Done." or the
\* message of the error) in the status line.
C30_RunsEndIdle ==
  /\ [][/\ \A i \in RunIds :
             Ends2(i) => /\ ~step2RunBtnDisabled'
                         /\ step2CancelBtnDisabled'
                         /\ step2ProgressHidden'
                         /\ step2Status' = IF step2Runs'[i].pc = "done" THEN "Done."
                                           ELSE step2Runs'[i].err.kind
                         /\ step2Status' # "none"
        /\ \A i \in GenIds :
             Ends3(i) => /\ ~step3GenerateBtnDisabled'
                         /\ step3CancelBtnDisabled'
                         /\ step3ProgressHidden'
                         /\ step3Status' = IF step3Gens'[i].pc = "done" THEN "Done."
                                           ELSE step3Gens'[i].err.kind
                         /\ step3Status' # "none"]_vars
  /\ \A i \in RunIds : []<>(~InFlight(step2Runs[i]))
  /\ \A i \in GenIds : []<>(~InFlight3(step3Gens[i]))

\* A run of Step 2 that was suspended and cancelled has ended with Cancelled,
\* the controls idle.
C30_Witness ==
  /\ mode = "filter"
  /\ \E i \in Started :
       /\ step2Runs[i].pc = "failed"
       /\ step2Runs[i].err = Error2("Cancelled.")
       /\ step2Runs[i].processed > 0
  /\ step2Status = "Cancelled."
  /\ ~step2RunBtnDisabled /\ step2CancelBtnDisabled /\ step2ProgressHidden

====
